---------------------------- MODULE Spec2Model ----------------------------
(***************************************************************************)
(* Model of the review scoring pipeline of the academic paper analyzer:    *)
(* ReviewGenerator (src/utils/review_generator.py) and the citation        *)
(* de-duplication of CitationExtractor / PDFProcessor.                     *)
(*                                                                         *)
(* Numbers.  Python floats are modelled as exact rationals.  A criterion   *)
(* score is an integer number of 1/Scale units (Scale = 60 is the least    *)
(* common multiple of the divisors 5, 20 and 30 the adjustments use), an   *)
(* overall score is a fraction [n, d].  Feature values on a 0..1 or        *)
(* per-1000-words scale are carried in tenths.                             *)
(*                                                                         *)
(* Dictionaries are functions with a finite domain of strings; None is     *)
(* kept apart from the empty dict by the wrapper [none, groups].           *)
(***************************************************************************)
EXTENDS Integers, Sequences, FiniteSets, TLC

VARIABLES
    criteria,          \* generate_review's `criteria` argument (weights dict)
    analysis_results,  \* generate_review's `analysis_results` argument
    paper_text,        \* generate_review's `paper_text`: the vocabulary phrases it contains
    review_type,       \* generate_review's `review_type` argument
    hash_seed,         \* the process's string-hash seed: fixes the order of set(...)
    rng,               \* hidden state of the `random` module's generator
    review,            \* the dict returned by the last generate_review call
    calls,             \* number of generate_review calls made for the current inputs
    history,           \* how the last call's result compares with the call before it
    probe,             \* argument of the last _get_recommendation call
    probe_rec,         \* its result
    prev_probe,        \* argument of the call before it
    prev_rec,          \* its result
    text_markers,      \* citation extraction: the citation markers occurring in the text
    citations,         \* the list returned by extract_citations
    stats,             \* total_citations of get_citation_statistics and count_citations
    uploaded_file,     \* text extraction: the uploaded document handed to the extractor
    ref_section,       \* _split_references' `ref_section` argument
    references,        \* the list _split_references returned
    ref_text,          \* _parse_reference's `ref_text` argument
    reference,         \* the dict _parse_reference returned
    grammar_pc,        \* check_grammar: "idle", "loop" (in the for loop), "returned"
    chunk_index,       \* number of chunks the loop has handled
    grammar_matches,   \* check_grammar's `all_matches`
    posted,            \* the requests made: chunk number and outcome
    grammar_result,    \* what check_grammar returned
    feedback_csv,      \* data/feedback.csv: whether it exists, and its rows
    session_pc,        \* each session's position in the submission handler
    session_data,      \* each session's `feedback_data`
    submitted          \* the rows whose handler has run to its end

vars == <<criteria, analysis_results, paper_text, review_type, hash_seed, rng, review,
          calls, history, probe, probe_rec, prev_probe,
          prev_rec, text_markers, citations, stats, uploaded_file,
          ref_section, references, ref_text, reference, grammar_pc, chunk_index,
          grammar_matches, posted, grammar_result, feedback_csv, session_pc,
          session_data, submitted>>

reviewVars == <<criteria, analysis_results, paper_text, review_type, hash_seed, rng,
                review, calls, history>>
probeVars == <<probe, probe_rec, prev_probe, prev_rec>>
citeVars == <<text_markers, citations, stats>>
docVars == <<uploaded_file, ref_section, references>>
grammarVars == <<grammar_pc, chunk_index, grammar_matches, posted, grammar_result>>
feedbackVars == <<feedback_csv, session_pc, session_data, submitted>>
auxVars == <<ref_text, reference, grammarVars, feedbackVars>>

---------------------------------------------------------------------------
(* Generic helpers *)

Min(a, b) == IF a <= b THEN a ELSE b
Max(a, b) == IF a >= b THEN a ELSE b

\* dict.get(k, default)
Get(d, k, default) == IF k \in DOMAIN d THEN d[k] ELSE default

EmptyDict == [k \in {} |-> 0]

RECURSIVE SumOver(_, _)
SumOver(S, f) ==
    IF S = {} THEN 0
    ELSE LET k == CHOOSE x \in S : TRUE IN f[k] + SumOver(S \ {k}, f)

SeqToSet(s) == {s[i] : i \in DOMAIN s}

\* s[:n]
Take(s, n) == SubSeq(s, 1, Min(n, Len(s)))

NoDuplicates(s) == \A i, j \in DOMAIN s : i # j => s[i] # s[j]

\* Exact rationals [n, d] with d > 0.
Frac(n, d) == [n |-> n, d |-> d]
\* (equal denominators are compared without multiplying, to stay in range)
FracGE(a, b) == IF a.d = b.d THEN a.n >= b.n ELSE a.n * b.d >= b.n * a.d
FracLT(a, b) == ~FracGE(a, b)
FracEq(a, b) == FracGE(a, b) /\ FracGE(b, a)

\* Units of a criterion score: 1/Scale.
Scale == 20 * 3

---------------------------------------------------------------------------
(* ReviewGenerator._calculate_scores *)

CRITERIA == <<"novelty", "methodology", "clarity", "significance">>
CriterionNames == SeqToSet(CRITERIA)

NEUTRAL_PRIOR == 7

\* `if analysis_results:` -- None and the empty dict are both falsy
Truthy(a) == ~a.none /\ DOMAIN a.groups # {}

HasGroup(a, g) == Truthy(a) /\ g \in DOMAIN a.groups

\* Variant: max(1, x), the clamp without its upper bound
ClampNoUpper(x) == Max(1 * Scale, x)
\* min(10, max(1, x)) on scaled scores
Clamp(x) == Min(10 * Scale, Max(1 * Scale, x))

\* lines 184-187: novelty_score + (keyword_coverage / 5.0) * 2 - 1
NoveltyScore(base_scores, a) ==
    LET novelty_score == Get(base_scores, "novelty", NEUTRAL_PRIOR)
        keyword_coverage == Get(a.groups["keywords"], "academic_keyword_coverage", 0)
        novelty_adjustment == (keyword_coverage * 2 * Scale) \div 5
    IN  Clamp(novelty_score * Scale + novelty_adjustment - 1 * Scale)

\* Variant: the methodology adjustment without its "- 1"
methodology_score_uncentred(base_scores, a) ==
    LET methodology_score == Get(base_scores, "methodology", NEUTRAL_PRIOR)
        structure == a.groups["structure"]
        m1 == IF Get(structure, "has_methodology", FALSE) THEN 1 ELSE 0
        m2 == IF Get(structure, "has_results", FALSE) THEN 1 ELSE 0
    IN  Clamp((methodology_score + m1 + m2) * Scale)

\* lines 191-198
MethodologyScore(base_scores, a) ==
    LET methodology_score == Get(base_scores, "methodology", NEUTRAL_PRIOR)
        structure == a.groups["structure"]
        m1 == IF Get(structure, "has_methodology", FALSE) THEN 1 ELSE 0
        m2 == IF Get(structure, "has_results", FALSE) THEN 1 ELSE 0
        method_adjustment == m1 + m2
    IN  Clamp((methodology_score + method_adjustment - 1) * Scale)

\* Variant: the two slopes of the clarity adjustment exchanged
clarity_score_slopes_exchanged(base_scores, a) ==
    LET clarity_score == Get(base_scores, "clarity", NEUTRAL_PRIOR)
        flesch_score == Get(a.groups["readability"], "flesch_score", 50)
        clarity_adjustment == IF flesch_score >= 60
                              THEN (flesch_score - 60) * (Scale \div 30)
                              ELSE (flesch_score - 60) * (Scale \div 20)
    IN  Clamp(clarity_score * Scale + clarity_adjustment)

\* lines 202-209: (flesch - 60) / 20 at or above 60, (flesch - 60) / 30 below
ClarityScore(base_scores, a) ==
    LET clarity_score == Get(base_scores, "clarity", NEUTRAL_PRIOR)
        flesch_score == Get(a.groups["readability"], "flesch_score", 50)
        clarity_adjustment == IF flesch_score >= 60
                              THEN (flesch_score - 60) * (Scale \div 20)
                              ELSE (flesch_score - 60) * (Scale \div 30)
    IN  Clamp(clarity_score * Scale + clarity_adjustment)

\* lines 213-218.  citation_density and the quality values are in tenths.
\* np.mean of an empty list is nan, and min(10, max(1, nan)) is 1.
SignificanceScore(base_scores, a) ==
    LET significance_score == Get(base_scores, "significance", NEUTRAL_PRIOR)
        citation_density == Get(a.groups["citations"], "citation_density", 5)
        quality_scores == a.groups["academic_quality"]
        n == Cardinality(DOMAIN quality_scores)
        baseline == ((citation_density - 5) * 2 * Scale) \div 10
        quality == (SumOver(DOMAIN quality_scores, quality_scores) * 2 * Scale)
                       \div (10 * n)
    IN  IF n = 0 THEN 1 * Scale
        ELSE Clamp(significance_score * Scale + baseline + quality - 1 * Scale)

HasKey(scores, k) == \E i \in DOMAIN scores : scores[i][1] = k
ScoreOf(scores, k) == scores[CHOOSE i \in DOMAIN scores : scores[i][1] = k][2]

\* Variant: missing scores are filled from the weights with default 0
RECURSIVE fill_missing_zero(_, _, _)
fill_missing_zero(scores, base_scores, i) ==
    IF i > Len(CRITERIA) THEN scores
    ELSE LET criterion == CRITERIA[i] IN
         IF HasKey(scores, criterion)
         THEN fill_missing_zero(scores, base_scores, i + 1)
         ELSE fill_missing_zero(
                Append(scores, <<criterion, Get(base_scores, criterion, 0) * Scale>>),
                base_scores, i + 1)

\* lines 221-223: fill in any missing scores with base values
RECURSIVE FillMissing(_, _, _)
FillMissing(scores, base_scores, i) ==
    IF i > Len(CRITERIA) THEN scores
    ELSE LET criterion == CRITERIA[i] IN
         IF HasKey(scores, criterion)
         THEN FillMissing(scores, base_scores, i + 1)
         ELSE FillMissing(
                Append(scores,
                       <<criterion, Get(base_scores, criterion, NEUTRAL_PRIOR) * Scale>>),
                base_scores, i + 1)

\* The scores dict as the sequence of its (criterion, score) items in insertion
\* order, which is the order scores.items() iterates in.
_calculate_scores(text, crit, a) ==
    LET base_scores == crit
        s1 == IF HasGroup(a, "keywords")
              THEN <<<<"novelty", NoveltyScore(base_scores, a)>>>> ELSE <<>>
        s2 == IF HasGroup(a, "structure")
              THEN Append(s1, <<"methodology", MethodologyScore(base_scores, a)>>)
              ELSE s1
        s3 == IF HasGroup(a, "readability")
              THEN Append(s2, <<"clarity", ClarityScore(base_scores, a)>>)
              ELSE s2
        s4 == IF HasGroup(a, "citations") /\ HasGroup(a, "academic_quality")
              THEN Append(s3, <<"significance", SignificanceScore(base_scores, a)>>)
              ELSE s3
    IN  FillMissing(s4, base_scores, 1)

---------------------------------------------------------------------------
(* ReviewGenerator._calculate_overall_score *)

\* sum(scores[k] * criteria[k] for k in scores.keys() if k in criteria)
RECURSIVE WeightedSum(_, _, _)
WeightedSum(scores, crit, i) ==
    IF i > Len(scores) THEN 0
    ELSE (IF scores[i][1] \in DOMAIN crit THEN scores[i][2] * crit[scores[i][1]] ELSE 0)
         + WeightedSum(scores, crit, i + 1)

RECURSIVE PlainSum(_, _)
PlainSum(scores, i) ==
    IF i > Len(scores) THEN 0 ELSE scores[i][2] + PlainSum(scores, i + 1)

\* Variant: the weighted sum divided by the number of weights
calculate_overall_by_count(scores, crit) ==
    LET total_weight == SumOver(DOMAIN crit, crit)
        weighted_sum == WeightedSum(scores, crit, 1)
    IN  IF total_weight > 0 THEN Frac(weighted_sum, Scale * Cardinality(DOMAIN crit))
        ELSE Frac(NEUTRAL_PRIOR, 1)
\* Variant: the weighted sum leaves the significance term out
calculate_overall_key_typo(scores, crit) ==
    LET total_weight == SumOver(DOMAIN crit, crit)
        weighted_sum == WeightedSum(scores, [k \in DOMAIN crit \ {"significance"} |-> crit[k]], 1)
    IN  IF total_weight > 0 THEN Frac(weighted_sum, Scale * total_weight)
        ELSE Frac(NEUTRAL_PRIOR, 1)
\* Variant: the plain mean of the scores
calculate_overall_unweighted(scores, crit) ==
    LET total_weight == SumOver(DOMAIN crit, crit)
    IN  IF total_weight > 0 THEN Frac(PlainSum(scores, 1), Scale * Len(scores))
        ELSE Frac(NEUTRAL_PRIOR, 1)
\* lines 229-231
_calculate_overall_score(scores, crit) ==
    LET total_weight == SumOver(DOMAIN crit, crit)
        weighted_sum == WeightedSum(scores, crit, 1)
    IN  IF total_weight > 0 THEN Frac(weighted_sum, Scale * total_weight)
        ELSE Frac(NEUTRAL_PRIOR, 1)

---------------------------------------------------------------------------
(* ReviewGenerator._get_recommendation *)

\* Variant: Accept only above 8.5
get_recommendation_strict(overall_score) ==
    IF FracGE(overall_score, Frac(85, 10)) /\ ~FracEq(overall_score, Frac(85, 10))
    THEN "Accept"
    ELSE IF FracGE(overall_score, Frac(70, 10)) THEN "Minor Revision"
    ELSE IF FracGE(overall_score, Frac(55, 10)) THEN "Major Revision"
    ELSE "Reject"
\* lines 235-242
_get_recommendation(overall_score) ==
    IF FracGE(overall_score, Frac(85, 10)) THEN "Accept"
    ELSE IF FracGE(overall_score, Frac(70, 10)) THEN "Minor Revision"
    ELSE IF FracGE(overall_score, Frac(55, 10)) THEN "Major Revision"
    ELSE "Reject"

---------------------------------------------------------------------------
(* ReviewGenerator.__init__: template pools *)

\* strength_patterns, after .format(topic="the research area", field="the field")
strength_patterns ==
    [high_novelty |->
        <<"The paper presents a novel approach to the research area",
          "The research addresses an important gap in the field",
          "The proposed method is innovative and well-motivated",
          "The work introduces original concepts that advance the field">>,
     strong_methodology |->
        <<"The methodology is rigorous and well-designed",
          "The experimental setup is comprehensive and appropriate",
          "The authors employ sound research methods",
          "The approach is methodologically robust">>,
     clear_presentation |->
        <<"The paper is well-written and clearly structured",
          "The presentation is clear and easy to follow",
          "The writing quality is high with good organization",
          "The paper effectively communicates its contributions">>,
     significant_impact |->
        <<"The work has clear practical implications",
          "The results demonstrate significant improvements",
          "The findings contribute meaningfully to the field",
          "The research addresses an important problem">>]

weakness_patterns ==
    [low_novelty |->
        <<"The novelty of the approach is limited",
          "The contribution appears incremental",
          "Similar approaches have been explored previously",
          "The innovation over existing work is unclear">>,
     weak_methodology |->
        <<"The methodology lacks sufficient detail",
          "The experimental design has notable limitations",
          "The evaluation could be more comprehensive",
          "The validation is insufficient for the claims made">>,
     unclear_presentation |->
        <<"The presentation could be clearer in several areas",
          "Some sections are difficult to follow",
          "The writing quality needs improvement",
          "The organization could be better structured">>,
     limited_significance |->
        <<"The practical impact is not clearly demonstrated",
          "The significance of the results is unclear",
          "The broader implications need better articulation",
          "The relevance to the field could be stronger">>]

StrengthPool(criterion) ==
    CASE criterion = "novelty" -> strength_patterns.high_novelty
      [] criterion = "methodology" -> strength_patterns.strong_methodology
      [] criterion = "clarity" -> strength_patterns.clear_presentation
      [] criterion = "significance" -> strength_patterns.significant_impact

WeaknessPool(criterion) ==
    CASE criterion = "novelty" -> weakness_patterns.low_novelty
      [] criterion = "methodology" -> weakness_patterns.weak_methodology
      [] criterion = "clarity" -> weakness_patterns.unclear_presentation
      [] criterion = "significance" -> weakness_patterns.limited_significance

\* review_templates: the styles with a template of their own
review_templates ==
    [x \in {"Academic Conference", "Journal Review", "Thesis Defense", "Peer Review"} |->
        CASE x = "Academic Conference" -> "conference paper format"
          [] x = "Journal Review" -> "journal article format"
          [] x = "Thesis Defense" -> "thesis format"
          [] x = "Peer Review" -> "research paper format"]

\* Every pool holds four templates.
PoolSize == Len(strength_patterns.high_novelty)

\* The `random` module: a deterministic generator whose hidden state is seeded
\* from the operating system when the process starts and moves on with every
\* draw.  The state is modelled as the next four draws (base-PoolSize digits,
\* so that every outcome of one review's draws occurs for some state); a draw
\* yields the lowest digit, shifts it out and feeds a new highest digit in.
RngStates == PoolSize * PoolSize * PoolSize * PoolSize
RngOutput(state) == state % PoolSize
RngStep(state) ==
    (state \div PoolSize)
    + (RngStates \div PoolSize)
      * (((state % PoolSize) + (state \div (RngStates \div PoolSize)) + 1) % PoolSize)

RECURSIVE RngStepN(_, _)
RngStepN(state, n) == IF n = 0 THEN state ELSE RngStepN(RngStep(state), n - 1)

\* random.choice(pool) when the generator yields `draw`
random_choice(pool, draw) == pool[(draw % Len(pool)) + 1]

\* The criteria for which one generate_review call draws, in the order the
\* draws are made: _generate_strengths for every score >= 8.0, then
\* _generate_weaknesses for every score <= 6.0, each in scores.items() order.
RECURSIVE SelectKeys(_, _, _)
SelectKeys(scores, high, i) ==
    IF i > Len(scores) THEN <<>>
    ELSE (IF (high /\ scores[i][2] >= 8 * Scale) \/ (~high /\ scores[i][2] <= 6 * Scale)
          THEN <<scores[i][1]>> ELSE <<>>)
         \o SelectKeys(scores, high, i + 1)

DrawOrder(scores) == SelectKeys(scores, TRUE, 1) \o SelectKeys(scores, FALSE, 1)

\* The draw each drawing criterion gets from generator state `state`.
DrawsFrom(scores, state) ==
    LET order == DrawOrder(scores)
    IN  [k \in SeqToSet(order) |->
            RngOutput(RngStepN(state, (CHOOSE j \in DOMAIN order : order[j] = k) - 1))]

---------------------------------------------------------------------------
(* ReviewGenerator._generate_strengths *)

RECURSIVE ScoreStrengths(_, _, _)
ScoreStrengths(scores, draws, i) ==
    IF i > Len(scores) THEN <<>>
    ELSE (IF scores[i][2] >= 8 * Scale
          THEN <<random_choice(StrengthPool(scores[i][1]), draws[scores[i][1]])>>
          ELSE <<>>)
         \o ScoreStrengths(scores, draws, i + 1)

FeatureStrengths(a) ==
    IF ~Truthy(a) THEN <<>>
    ELSE (IF "readability" \in DOMAIN a.groups
             /\ Get(a.groups["readability"], "flesch_score", 50) >= 70
          THEN <<"The paper demonstrates excellent readability and accessibility">>
          ELSE <<>>)
      \o (IF "structure" \in DOMAIN a.groups
             /\ Get(a.groups["structure"], "balance_score", 0) >= 8
          THEN <<"The paper is well-structured with balanced sections">>
          ELSE <<>>)
      \o (IF "citations" \in DOMAIN a.groups
             /\ Get(a.groups["citations"], "citation_density", 0) >= 10
          THEN <<"The work demonstrates comprehensive literature coverage">>
          ELSE <<>>)

FallbackStrengths ==
    <<"The research addresses a relevant problem in the field",
      "The paper makes a meaningful contribution to the literature">>

\* Variant: the fallback only when no strength was found
generate_strengths_fallback_when_empty(scores, a, draws) ==
    LET strengths == ScoreStrengths(scores, draws, 1) \o FeatureStrengths(a)
    IN  Take(IF Len(strengths) = 0 THEN strengths \o FallbackStrengths ELSE strengths, 5)
\* Variant: the list cut to 4 strengths
generate_strengths_cut_to_four(scores, a, draws) ==
    LET strengths == ScoreStrengths(scores, draws, 1) \o FeatureStrengths(a)
    IN  Take(IF Len(strengths) < 2 THEN strengths \o FallbackStrengths ELSE strengths, 4)
\* lines 247-287
_generate_strengths(scores, a, draws) ==
    LET strengths == ScoreStrengths(scores, draws, 1) \o FeatureStrengths(a)
    IN  Take(IF Len(strengths) < 2 THEN strengths \o FallbackStrengths ELSE strengths, 5)

---------------------------------------------------------------------------
(* ReviewGenerator._generate_weaknesses *)

RECURSIVE ScoreWeaknesses(_, _, _)
ScoreWeaknesses(scores, draws, i) ==
    IF i > Len(scores) THEN <<>>
    ELSE (IF scores[i][2] <= 6 * Scale
          THEN <<random_choice(WeaknessPool(scores[i][1]), draws[scores[i][1]])>>
          ELSE <<>>)
         \o ScoreWeaknesses(scores, draws, i + 1)

FeatureWeaknesses(a) ==
    IF ~Truthy(a) THEN <<>>
    ELSE (IF "readability" \in DOMAIN a.groups
             /\ Get(a.groups["readability"], "flesch_score", 50) < 40
          THEN <<"The text complexity may hinder accessibility to broader audiences">>
          ELSE <<>>)
      \o (IF "structure" \in DOMAIN a.groups
             /\ ~Get(a.groups["structure"], "has_methodology", TRUE)
          THEN <<"The methodology section needs strengthening or clarification">>
          ELSE <<>>)
      \o (IF "structure" \in DOMAIN a.groups
             /\ Get(a.groups["structure"], "abstract_quality", 10) < 5
          THEN <<"The abstract could be more comprehensive and informative">>
          ELSE <<>>)
      \o (IF "citations" \in DOMAIN a.groups
             /\ Get(a.groups["citations"], "citation_density", 10) < 3
          THEN <<"The literature review could be more comprehensive">>
          ELSE <<>>)

FallbackWeaknesses ==
    <<"Minor improvements in presentation could enhance the paper's impact">>

\* Variant: the feature-driven weaknesses collected before the score-driven ones
generate_weaknesses_features_first(scores, a, draws) ==
    LET weaknesses == FeatureWeaknesses(a) \o ScoreWeaknesses(scores, draws, 1)
    IN  Take(IF Len(weaknesses) = 0 THEN weaknesses \o FallbackWeaknesses
             ELSE weaknesses, 4)
\* lines 292-329
_generate_weaknesses(scores, a, draws) ==
    LET weaknesses == ScoreWeaknesses(scores, draws, 1) \o FeatureWeaknesses(a)
    IN  Take(IF Len(weaknesses) = 0 THEN weaknesses \o FallbackWeaknesses
             ELSE weaknesses, 4)

---------------------------------------------------------------------------
(* ReviewGenerator._generate_suggestions *)

SuggestionsFor(criterion) ==
    CASE criterion = "novelty" ->
           <<"Consider highlighting the novel aspects more prominently",
             "Provide clearer differentiation from existing work">>
      [] criterion = "methodology" ->
           <<"Expand the methodology section with more implementation details",
             "Include additional validation or comparison studies">>
      [] criterion = "clarity" ->
           <<"Improve the organization and flow of the paper",
             "Add more explanatory text for complex concepts">>
      [] criterion = "significance" ->
           <<"Better articulate the practical implications of the work",
             "Discuss broader impact and future applications">>

RECURSIVE ScoreSuggestions(_, _)
ScoreSuggestions(scores, i) ==
    IF i > Len(scores) THEN <<>>
    ELSE (IF scores[i][2] <= 7 * Scale THEN SuggestionsFor(scores[i][1]) ELSE <<>>)
         \o ScoreSuggestions(scores, i + 1)

FeatureSuggestions(a) ==
    IF ~Truthy(a) THEN <<>>
    ELSE (IF "readability" \in DOMAIN a.groups
             /\ Get(a.groups["readability"], "avg_sentence_length", 20) > 25
          THEN <<"Consider breaking down long sentences for improved readability">>
          ELSE <<>>)
      \o (IF "keywords" \in DOMAIN a.groups
             /\ Get(a.groups["keywords"], "academic_keyword_coverage", 5) < 3
          THEN <<"Strengthen the use of domain-specific terminology">>
          ELSE <<>>)

GeneralSuggestions ==
    <<"Consider adding more visual aids (figures, tables) to support the narrative",
      "Strengthen the conclusion with clearer implications and future work directions">>

\* Every statement _generate_suggestions can put into the set, in one fixed order.
AllSuggestions ==
    SuggestionsFor("novelty") \o SuggestionsFor("methodology")
    \o SuggestionsFor("clarity") \o SuggestionsFor("significance")
    \o <<"Consider breaking down long sentences for improved readability",
         "Strengthen the use of domain-specific terminology">>
    \o GeneralSuggestions

\* list(set(xs)): the members of xs, once each, in the order the string hashes
\* give them.  The order is fixed for a process (its hash seed) and arbitrary
\* otherwise; seed h is modelled as AllSuggestions rotated by h places.
RECURSIVE FilterSeq(_, _, _)
FilterSeq(s, S, i) ==
    IF i > Len(s) THEN <<>>
    ELSE (IF s[i] \in S THEN <<s[i]>> ELSE <<>>) \o FilterSeq(s, S, i + 1)

HashOrder(h) ==
    [i \in 1..Len(AllSuggestions) |->
        AllSuggestions[((i - 1 + h) % Len(AllSuggestions)) + 1]]

list_set(xs, h) == FilterSeq(HashOrder(h), SeqToSet(xs), 1)

\* Variant: the de-duplicated list without the [:6] cut
generate_suggestions_uncapped(scores, a, h) ==
    LET suggestions == ScoreSuggestions(scores, 1) \o FeatureSuggestions(a)
                       \o GeneralSuggestions
    IN  list_set(suggestions, h)
\* lines 334-378
_generate_suggestions(scores, a, h) ==
    LET suggestions == ScoreSuggestions(scores, 1) \o FeatureSuggestions(a)
                       \o GeneralSuggestions
    IN  Take(list_set(suggestions, h), 6)

---------------------------------------------------------------------------
(* ReviewGenerator._extract_paper_info *)

\* A paper text is modelled by the set of vocabulary phrases that occur in
\* text.lower().  The title the method also extracts is read by no caller.
_extract_paper_info(text) ==
    [subject |->
        IF "machine learning" \in text \/ "artificial intelligence" \in text
        THEN "machine learning and AI applications"
        ELSE IF "deep learning" \in text \/ "neural network" \in text
        THEN "deep learning methodologies"
        ELSE IF "natural language" \in text \/ "nlp" \in text
        THEN "natural language processing"
        ELSE IF "computer vision" \in text \/ "image" \in text
        THEN "computer vision techniques"
        ELSE "the research topic",
     contribution |->
        IF "novel" \in text \/ "new" \in text
        THEN "novel methodological contributions"
        ELSE IF "improve" \in text \/ "better" \in text
        THEN "performance improvements"
        ELSE IF "framework" \in text \/ "system" \in text
        THEN "systematic framework development"
        ELSE "novel insights"]

---------------------------------------------------------------------------
(* ReviewGenerator._generate_detailed_comments *)

\* The comment text is the sequence of its lines; a line is the tuple of its
\* fixed wording and the values substituted into it.
TemplateOf(rtype) ==
    IF rtype \in DOMAIN review_templates THEN rtype ELSE "Peer Review"

_generate_detailed_comments(text, a, rtype) ==
    LET paper_info == _extract_paper_info(text)
        template == TemplateOf(rtype)
        intro == <<"intro", template, paper_info.subject, paper_info.contribution>>
        structure_part ==
            IF HasGroup(a, "structure")
            THEN LET structure == a.groups["structure"] IN
                 <<<<"The paper follows a {} with {} main sections.",
                     review_templates[template],
                     Get(structure, "total_sections", "several")>>,
                   IF Get(structure, "abstract_quality", 5) >= 7
                   THEN <<"The abstract effectively summarizes the work.">>
                   ELSE <<"The abstract could benefit from better summarization of key contributions.">>
                 >>
            ELSE <<>>
        content_part ==
            IF HasGroup(a, "academic_quality")
            THEN LET quality == a.groups["academic_quality"] IN
                 (IF Get(quality, "methodology_rigor", 5) >= 6
                  THEN <<<<"The methodology demonstrates good rigor and systematic approach.">>>>
                  ELSE <<>>)
                 \o (IF Get(quality, "evidence_strength", 5) >= 6
                     THEN <<<<"The evidence presented supports the claims made.">>>>
                     ELSE <<>>)
            ELSE <<>>
        presentation_part ==
            IF HasGroup(a, "readability")
            THEN <<<<"The writing is at {} level, which is appropriate for the target audience.",
                     Get(a.groups["readability"], "grade_level", "Graduate")>>>>
            ELSE <<>>
    IN  <<intro, <<"**Structure and Organization:**">>>> \o structure_part
        \o <<<<"**Technical Content:**">>>> \o content_part
        \o <<<<"**Presentation Quality:**">>>> \o presentation_part

---------------------------------------------------------------------------
(* ReviewGenerator._generate_summary *)

\* f"{overall_score:.1f}": the score rounded to tenths (ties to even), in tenths
FormatOneDecimal(x) ==
    LET t == (10 * x.n) \div x.d
        r == (10 * x.n) % x.d
    IN  IF 2 * r > x.d THEN t + 1
        ELSE IF 2 * r < x.d THEN t
        ELSE IF t % 2 = 0 THEN t ELSE t + 1

\* Variant: 'strong' from 6.5 on
generate_summary_strong_from_6_5(paper_info, overall_score, recommendation) ==
    [subject |-> paper_info.subject,
     score |-> FormatOneDecimal(overall_score),
     recommendation |-> recommendation,
     contribution |-> paper_info.contribution,
     quality |-> IF FracGE(overall_score, Frac(65, 10)) THEN "strong"
                 ELSE IF FracGE(overall_score, Frac(60, 10)) THEN "adequate"
                 ELSE "limited"]
\* lines 423-429
_generate_summary(paper_info, overall_score, recommendation) ==
    [subject |-> paper_info.subject,
     score |-> FormatOneDecimal(overall_score),
     recommendation |-> recommendation,
     contribution |-> paper_info.contribution,
     quality |-> IF FracGE(overall_score, Frac(75, 10)) THEN "strong"
                 ELSE IF FracGE(overall_score, Frac(60, 10)) THEN "adequate"
                 ELSE "limited"]

---------------------------------------------------------------------------
(* ReviewGenerator.generate_review *)

\* The returned dict, but for review_date (the day of the call), once the
\* scores and the overall score are computed (lines 112-131).  `draws` are the
\* values the random generator yields to this call, `h` the process's hash seed.
assemble_review(text, rtype, a, draws, h, scores, overall_score) ==
    [overall_score |-> overall_score,
     recommendation |-> _get_recommendation(overall_score),
     detailed_scores |-> scores,
     strengths |-> _generate_strengths(scores, a, draws),
     weaknesses |-> _generate_weaknesses(scores, a, draws),
     suggestions |-> _generate_suggestions(scores, a, h),
     detailed_comments |-> _generate_detailed_comments(text, a, rtype),
     review_type |-> rtype,
     summary |-> _generate_summary(_extract_paper_info(text), overall_score,
                                   _get_recommendation(overall_score))]

\* Variant: the overall score computed with the weights of the review style's
\* template (review_templates[...]['criteria_weights']) in place of the caller's.
template_weights ==
    [x \in {"Academic Conference", "Journal Review", "Thesis Defense", "Peer Review"} |->
        CASE x = "Academic Conference" ->
               [novelty |-> 30, methodology |-> 25, clarity |-> 25, significance |-> 20]
          [] x = "Journal Review" ->
               [novelty |-> 25, methodology |-> 30, clarity |-> 20, significance |-> 25]
          [] x = "Thesis Defense" ->
               [novelty |-> 20, methodology |-> 40, clarity |-> 20, significance |-> 20]
          [] x = "Peer Review" ->
               [novelty |-> 25, methodology |-> 30, clarity |-> 25, significance |-> 20]]
generate_review_template_weights(text, crit, rtype, a, draws, h) ==
    CHOOSE r \in
        {assemble_review(text, rtype, a, draws, h, scores,
                         _calculate_overall_score(scores, template_weights[TemplateOf(rtype)])) :
            scores \in {_calculate_scores(text, crit, a)}} : TRUE

\* generate_review (lines 105-131).  The scores and the overall score are
\* computed once and bound, as the local variables of the method are.
generate_review(text, crit, rtype, a, draws, h) ==
    CHOOSE r \in
        UNION {{assemble_review(text, rtype, a, draws, h, scores, overall_score) :
                   overall_score \in {_calculate_overall_score(scores, crit)}} :
               scores \in {_calculate_scores(text, crit, a)}} : TRUE

---------------------------------------------------------------------------
(* Inputs *)

\* The weight sliders of the application run from 1 to 10.
MinWeight == 1
MaxWeight == 10

\* Number of academic keyword categories: academic_keyword_coverage is 0..5.
KeywordCategories == 5

None == [none |-> TRUE, groups |-> EmptyDict]
Dict(groups) == [none |-> FALSE, groups |-> groups]

\* Weights dicts over any subset of the four criterion keys.
WeightDicts(values) == UNION {[K -> values] : K \in SUBSET CriterionNames}
FullWeightDicts(values) == [CriterionNames -> values]

\* Flesch scores around the thresholds 40, 60 and 70 the code tests, the ends
\* of the nominal 0..100 scale, and values outside it (textstat returns them
\* for very hard and very easy text).
FleschValues == {-30, 0, 30, 35, 39, 40, 59, 60, 69, 70, 75, 100, 120}

\* Citation densities, in tenths, around the thresholds 0.3, 0.5 and 1.0.
DensityValues == {0, 2, 3, 5, 10, 40}

KeywordsOptions ==
    {EmptyDict} \cup {[academic_keyword_coverage |-> c] : c \in 0..KeywordCategories}

StructureFlagOptions ==
    {EmptyDict, [has_methodology |-> TRUE], [has_results |-> TRUE],
     [has_methodology |-> TRUE, has_results |-> TRUE],
     [has_methodology |-> TRUE, has_results |-> FALSE],
     [has_methodology |-> FALSE, has_results |-> FALSE]}

ReadabilityOptions == {EmptyDict} \cup {[flesch_score |-> f] : f \in FleschValues}

CitationsOptions == {EmptyDict} \cup {[citation_density |-> d] : d \in DensityValues}

QualityOptions ==
    {EmptyDict, [methodology_rigor |-> 0], [methodology_rigor |-> 10],
     [methodology_rigor |-> 7, evidence_strength |-> 4],
     [methodology_rigor |-> 10, evidence_strength |-> 10, writing_quality |-> 10],
     [methodology_rigor |-> 2, evidence_strength |-> 3, writing_quality |-> 1]}

\* Analysis results holding every feature group.
CompleteAnalysis(kw, st, rd, ci, qu) ==
    Dict([keywords |-> kw, structure |-> st, readability |-> rd,
          citations |-> ci, academic_quality |-> qu])

\* Absent, empty, one feature group alone (citations with academic_quality,
\* which the significance adjustment needs together), and complete results.
ScoreAnalyses ==
    {None, Dict(EmptyDict)}
    \cup {Dict([keywords |-> o]) : o \in KeywordsOptions}
    \cup {Dict([structure |-> o]) : o \in StructureFlagOptions}
    \cup {Dict([readability |-> o]) : o \in ReadabilityOptions}
    \cup {Dict([citations |-> o]) : o \in CitationsOptions}
    \cup {Dict([academic_quality |-> o]) : o \in QualityOptions}
    \cup {Dict([citations |-> c, academic_quality |-> q]) :
              c \in CitationsOptions, q \in QualityOptions}
    \cup {CompleteAnalysis([academic_keyword_coverage |-> c],
                           [has_methodology |-> m, has_results |-> m],
                           [flesch_score |-> f],
                           [citation_density |-> d],
                           [methodology_rigor |-> q, evidence_strength |-> q]) :
              c \in {0, KeywordCategories}, m \in BOOLEAN, f \in {0, 60, 100},
              d \in {0, 40}, q \in {0, 10}}

\* Weights at and next to both ends of the slider, and the neutral value.
EdgeWeights == {MinWeight, MinWeight + 1, NEUTRAL_PRIOR, MaxWeight - 1, MaxWeight}

NoReview == [overall_score |-> Frac(0, 1), recommendation |-> "",
             detailed_scores |-> <<>>, review_type |-> ""]
NoHistory == [kind |-> "none"]
NoProbe == Frac(0, 1)

---------------------------------------------------------------------------
(* Scoring: the numeric part of generate_review (lines 107-112) *)

score_review(text, crit, a) ==
    CHOOSE r \in
        UNION {{[overall_score |-> overall_score,
                 recommendation |-> _get_recommendation(overall_score),
                 detailed_scores |-> scores,
                 review_type |-> ""] :
                   overall_score \in {_calculate_overall_score(scores, crit)}} :
               scores \in {_calculate_scores(text, crit, a)}} : TRUE

IdleProbe == /\ probe = NoProbe /\ probe_rec = "" /\ prev_probe = NoProbe /\ prev_rec = ""
IdleCite == /\ text_markers = <<>> /\ citations = <<>> /\ stats = <<>>
NoUpload == [format |-> "", readable |-> FALSE, pages |-> <<>>, tables |-> <<>>]
NotSplit == [done |-> FALSE, value |-> <<>>]
IdleRefs == ref_section = <<>> /\ references = NotSplit
IdleDoc == uploaded_file = NoUpload /\ IdleRefs
NotParsed == [done |-> FALSE, value |-> <<>>]
IdleParse == ref_text = <<>> /\ reference = NotParsed
\* Sessions of the application (each runs the page's script in its own thread).
Sessions == {"s1", "s2"}
NoFile == [exists |-> FALSE, rows |-> <<>>]
IdleGrammar ==
    /\ grammar_pc = "idle" /\ chunk_index = 0 /\ grammar_matches = <<>>
    /\ posted = <<>> /\ grammar_result = NotParsed
IdleFeedback ==
    /\ feedback_csv = NoFile
    /\ session_pc = [s \in Sessions |-> "idle"]
    /\ session_data = [s \in Sessions |-> <<>>]
    /\ submitted = {}
IdleAux == IdleParse /\ IdleGrammar /\ IdleFeedback

InitScore ==
    /\ criteria \in WeightDicts(EdgeWeights)
    /\ analysis_results \in ScoreAnalyses
    /\ paper_text = {}
    /\ review_type = "Peer Review"
    /\ hash_seed = 0
    /\ rng = 0
    /\ review = NoReview
    /\ calls = 0
    /\ history = NoHistory
    /\ IdleProbe /\ IdleAux /\ IdleCite /\ IdleDoc

\* One scoring of the current inputs.
Score ==
    /\ calls = 0
    /\ review' = score_review(paper_text, criteria, analysis_results)
    /\ calls' = 1
    /\ UNCHANGED <<criteria, analysis_results, paper_text, review_type, hash_seed,
                   rng, history>>
    /\ UNCHANGED probeVars /\ UNCHANGED auxVars /\ UNCHANGED citeVars /\ UNCHANGED docVars

NextScore == Score
SpecScore == InitScore /\ [][NextScore]_vars

---------------------------------------------------------------------------
(* Scoring again after one weight was raised *)

\* Analysis results the weight-raising runs hold fixed.
WeightAnalyses ==
    {None,
     CompleteAnalysis([academic_keyword_coverage |-> KeywordCategories],
                      [has_methodology |-> TRUE, has_results |-> TRUE],
                      [flesch_score |-> 75], [citation_density |-> 10],
                      [methodology_rigor |-> 7, evidence_strength |-> 4]),
     CompleteAnalysis([academic_keyword_coverage |-> 1],
                      [has_methodology |-> FALSE, has_results |-> FALSE],
                      [flesch_score |-> 35], [citation_density |-> 2],
                      [methodology_rigor |-> 2, evidence_strength |-> 3]),
     Dict([readability |-> [flesch_score |-> 100]])}

\* Weights the raised runs start from and move to.
RaiseWeights == {MinWeight, MinWeight + 1, 6, 8, MaxWeight}

InitWeights ==
    /\ criteria \in FullWeightDicts(RaiseWeights)
    /\ analysis_results \in WeightAnalyses
    /\ paper_text = {}
    /\ review_type = "Peer Review"
    /\ hash_seed = 0
    /\ rng = 0
    /\ review = NoReview
    /\ calls = 0
    /\ history = NoHistory
    /\ IdleProbe /\ IdleAux /\ IdleCite /\ IdleDoc

\* The caller raises the weight of criterion k to v and scores again with the
\* same analysis results.  history records how the new overall score compares
\* with the one before, and whether k's score was at least that overall score.
RaiseWeight(k, v) ==
    /\ calls >= 1
    /\ k \in DOMAIN criteria
    /\ v > criteria[k]
    /\ LET raised_criteria == [criteria EXCEPT ![k] = v]
           rescored == score_review(paper_text, raised_criteria, analysis_results)
       IN  /\ criteria' = raised_criteria
           /\ review' = rescored
           /\ history' =
                [kind |-> "raise",
                 not_lower |-> FracGE(rescored.overall_score, review.overall_score),
                 score_was_at_least_overall |->
                    FracGE(Frac(ScoreOf(review.detailed_scores, k), Scale),
                           review.overall_score)]
    /\ UNCHANGED <<analysis_results, paper_text, review_type, hash_seed, rng, calls>>
    /\ UNCHANGED probeVars /\ UNCHANGED auxVars /\ UNCHANGED citeVars /\ UNCHANGED docVars

NextWeights ==
    \/ Score
    \/ \E k \in CriterionNames, v \in RaiseWeights : RaiseWeight(k, v)
SpecWeights == InitWeights /\ [][NextWeights]_vars

---------------------------------------------------------------------------
(* _get_recommendation applied to probe scores *)

\* Quarter points from 0 up to ProbeQuarters / 4, and the values just below the
\* three thresholds.
ProbeQuarters == 40
ProbeScores ==
    {Frac(k, 4) : k \in 0..ProbeQuarters}
    \cup {Frac(849999, 100000), Frac(699999, 100000), Frac(549999, 100000)}

InitRecommend ==
    /\ criteria = EmptyDict
    /\ analysis_results = None
    /\ paper_text = {}
    /\ review_type = "Peer Review"
    /\ hash_seed = 0
    /\ rng = 0
    /\ review = NoReview
    /\ calls = 0
    /\ history = NoHistory
    /\ probe \in ProbeScores
    /\ probe_rec = ""
    /\ prev_probe = NoProbe
    /\ prev_rec = ""
    /\ IdleCite /\ IdleDoc /\ IdleAux

Recommend ==
    /\ probe_rec = ""
    /\ probe_rec' = _get_recommendation(probe)
    /\ UNCHANGED <<probe, prev_probe, prev_rec>>
    /\ UNCHANGED reviewVars /\ UNCHANGED citeVars /\ UNCHANGED docVars /\ UNCHANGED auxVars

\* The next overall score to be classified.
NextProbe(p) ==
    /\ probe_rec # ""
    /\ prev_probe' = probe
    /\ prev_rec' = probe_rec
    /\ probe' = p
    /\ probe_rec' = _get_recommendation(p)
    /\ UNCHANGED reviewVars /\ UNCHANGED citeVars /\ UNCHANGED docVars /\ UNCHANGED auxVars

NextRecommend == Recommend \/ \E p \in ProbeScores : NextProbe(p)
SpecRecommend == InitRecommend /\ [][NextRecommend]_vars

---------------------------------------------------------------------------
(* Claims on scoring *)

Scored == calls >= 1
FullWeights == DOMAIN criteria = CriterionNames
ScoreValues(scores) == {scores[i][2] : i \in DOMAIN scores}
MinScore(scores) == CHOOSE x \in ScoreValues(scores) : \A y \in ScoreValues(scores) : x <= y
MaxScore(scores) == CHOOSE x \in ScoreValues(scores) : \A y \in ScoreValues(scores) : x >= y
InOneToTen(x) == FracGE(x, Frac(1, 1)) /\ FracGE(Frac(10, 1), x)
BetweenScores(x, scores) ==
    /\ FracGE(x, Frac(MinScore(scores), Scale))
    /\ FracGE(Frac(MaxScore(scores), Scale), x)

\* C1: with all four weights in [1,10], whatever the analysis results (absent,
\* partial or complete), _calculate_scores returns a score for each of the four
\* criteria and each lies in [1,10].
C1_ScoresInRange ==
    (Scored /\ FullWeights) =>
        /\ {review.detailed_scores[i][1] : i \in DOMAIN review.detailed_scores}
               = CriterionNames
        /\ Len(review.detailed_scores) = 4
        /\ \A i \in DOMAIN review.detailed_scores :
               /\ review.detailed_scores[i][2] >= 1 * Scale
               /\ review.detailed_scores[i][2] <= 10 * Scale

\* C1 witness: the clamp acted at both ends (clarity 10 with Flesch 100,
\* novelty 1 with no keyword coverage).
C1_Witness ==
    /\ Scored /\ FullWeights
    /\ HasGroup(analysis_results, "readability")
    /\ HasGroup(analysis_results, "keywords")
    /\ criteria["clarity"] = 10
    /\ Get(analysis_results.groups["readability"], "flesch_score", 50) = 100
    /\ criteria["novelty"] = 1
    /\ Get(analysis_results.groups["keywords"], "academic_keyword_coverage", 0) = 0
    /\ ScoreOf(review.detailed_scores, "clarity") = 10 * Scale
    /\ ScoreOf(review.detailed_scores, "novelty") = 1 * Scale

\* C2: with all four weights given, the overall score is
\* sum(score_i * weight_i) / sum(weight_i) over the four criteria.
C2_OverallIsWeightedMean ==
    (Scored /\ FullWeights) =>
        FracEq(review.overall_score,
               Frac(SumOver(CriterionNames,
                            [k \in CriterionNames |->
                                ScoreOf(review.detailed_scores, k) * criteria[k]]),
                    Scale * SumOver(CriterionNames, criteria)))

\* C2 witness: unequal weights and unequal adjusted scores, where the weighted
\* mean differs from the plain mean of the four scores.
C2_Witness ==
    /\ Scored /\ FullWeights
    /\ Truthy(analysis_results)
    /\ criteria["novelty"] # criteria["clarity"]
    /\ ~FracEq(review.overall_score,
               Frac(SumOver(CriterionNames,
                            [k \in CriterionNames |-> ScoreOf(review.detailed_scores, k)]),
                    Scale * 4))

\* C3 as claimed: for every weights mapping (all four keys, some, or none) and
\* every analysis input the overall score lies in [1,10] and between the
\* smallest and the largest criterion score.
C3_Claimed ==
    Scored => /\ InOneToTen(review.overall_score)
              /\ BetweenScores(review.overall_score, review.detailed_scores)

\* C3 amended: the overall score lies in [1,10]; it lies between the smallest
\* and the largest criterion score whenever the weights mapping holds at least
\* one criterion key (with no key it is the fixed 7.0).
C3_OverallInRange ==
    Scored => /\ InOneToTen(review.overall_score)
              /\ (DOMAIN criteria # {} =>
                     BetweenScores(review.overall_score, review.detailed_scores))
              /\ (DOMAIN criteria = {} => FracEq(review.overall_score, Frac(7, 1)))

\* C3 witness: a mapping with some keys only, adjusted scores that differ.
C3_Witness ==
    /\ Scored
    /\ DOMAIN criteria = {"novelty", "clarity"}
    /\ Truthy(analysis_results)
    /\ MinScore(review.detailed_scores) < MaxScore(review.detailed_scores)
    /\ BetweenScores(review.overall_score, review.detailed_scores)

---------------------------------------------------------------------------
(* Claims on the recommendation *)

RecommendationRank(r) ==
    CASE r = "Reject" -> 0
      [] r = "Major Revision" -> 1
      [] r = "Minor Revision" -> 2
      [] r = "Accept" -> 3

\* C4: the recommendation is a total function of the overall score with the
\* bands >= 8.5 Accept, [7.0, 8.5) Minor Revision, [5.5, 7.0) Major Revision,
\* < 5.5 Reject; 8.5 is Accept, 8.49999 and 7.0 are Minor Revision, 5.5 is
\* Major Revision; a higher score never gets a worse recommendation.
C4_RecommendationBands ==
    /\ probe_rec # "" =>
        /\ probe_rec \in {"Accept", "Minor Revision", "Major Revision", "Reject"}
        /\ probe_rec = "Accept" <=> FracGE(probe, Frac(85, 10))
        /\ probe_rec = "Minor Revision" <=>
               (FracGE(probe, Frac(70, 10)) /\ FracLT(probe, Frac(85, 10)))
        /\ probe_rec = "Major Revision" <=>
               (FracGE(probe, Frac(55, 10)) /\ FracLT(probe, Frac(70, 10)))
        /\ probe_rec = "Reject" <=> FracLT(probe, Frac(55, 10))
        /\ (probe = Frac(849999, 100000) => probe_rec = "Minor Revision")
        /\ (FracEq(probe, Frac(7, 1)) => probe_rec = "Minor Revision")
        /\ (FracEq(probe, Frac(11, 2)) => probe_rec = "Major Revision")
    /\ (prev_rec # "" /\ FracGE(probe, prev_probe)) =>
           RecommendationRank(probe_rec) >= RecommendationRank(prev_rec)

\* C4 witness: 8.49999 was classified Minor Revision and then exactly 8.5 Accept.
C4_Witness ==
    /\ prev_probe = Frac(849999, 100000) /\ prev_rec = "Minor Revision"
    /\ FracEq(probe, Frac(17, 2)) /\ probe_rec = "Accept"

---------------------------------------------------------------------------
(* Claims on raising a weight *)

\* C5 as claimed: with the analysis results fixed, raising one criterion's
\* weight never lowers the overall score.
C5_Claimed == history.kind = "raise" => history.not_lower

\* C5 amended: raising one criterion's weight does not lower the overall score
\* when that criterion's score before the raise was at least the overall score
\* before the raise.
C5_RaiseKeepsOverall ==
    (history.kind = "raise" /\ history.score_was_at_least_overall) => history.not_lower

\* C5 witness: a raise of a criterion that scored at least the overall score,
\* after which the overall score is not lower -- and one of a criterion that
\* scored below it is reachable too (C5_Claimed's violation).
C5_Witness ==
    /\ history.kind = "raise"
    /\ history.score_was_at_least_overall
    /\ history.not_lower
    /\ Truthy(analysis_results)

---------------------------------------------------------------------------
(* generate_review called repeatedly with the same arguments *)

\* Largest number of generate_review calls in one run, and the number of
\* string-hash seeds a process may start with.
MaxCalls == 2
HashSeeds == 2

ReviewTypes ==
    {"Academic Conference", "Journal Review", "Thesis Defense", "Peer Review",
     "Workshop Review"}

\* Weights around the statement thresholds 6.0, 7.0 and 8.0, the defaults of
\* the application's sliders (8, 9, 7, 8), and mappings with keys missing.
ReviewCriteria ==
    {[novelty |-> 7, methodology |-> 7, clarity |-> 7, significance |-> 7],
     [novelty |-> 8, methodology |-> 9, clarity |-> 7, significance |-> 8],
     [novelty |-> 9, methodology |-> 9, clarity |-> 9, significance |-> 9],
     [novelty |-> 3, methodology |-> 4, clarity |-> 5, significance |-> 6],
     [novelty |-> 6, methodology |-> 7, clarity |-> 7, significance |-> 7],
     [novelty |-> 7, methodology |-> 7, clarity |-> 7, significance |-> 8],
     [novelty |-> 6, methodology |-> 8, clarity |-> 7, significance |-> 9],
     [novelty |-> 10, methodology |-> 10, clarity |-> 1, significance |-> 10],
     [clarity |-> 9], EmptyDict}

StrongAnalysis ==
    CompleteAnalysis(
        [academic_keyword_coverage |-> KeywordCategories],
        [has_methodology |-> TRUE, has_results |-> TRUE, balance_score |-> 9,
         abstract_quality |-> 10, total_sections |-> "8"],
        [flesch_score |-> 75, avg_sentence_length |-> 18, grade_level |-> "College"],
        [citation_density |-> 15],
        [methodology_rigor |-> 8, evidence_strength |-> 7])

WeakAnalysis ==
    CompleteAnalysis(
        [academic_keyword_coverage |-> 1],
        [has_methodology |-> FALSE, has_results |-> FALSE, balance_score |-> 3,
         abstract_quality |-> 3, total_sections |-> "2"],
        [flesch_score |-> 35, avg_sentence_length |-> 30,
         grade_level |-> "Post-graduate"],
        [citation_density |-> 1],
        [methodology_rigor |-> 2, evidence_strength |-> 3])

ReviewAnalyses ==
    {None, StrongAnalysis, WeakAnalysis,
     Dict([readability |-> [flesch_score |-> 70], citations |-> [citation_density |-> 10]]),
     Dict([structure |-> EmptyDict, readability |-> EmptyDict, keywords |-> EmptyDict])}

\* The empty text, and texts holding phrases of the subject and contribution
\* vocabularies.
PaperTexts == {{}, {"neural network", "image", "improve", "system"}}

Init ==
    /\ criteria \in ReviewCriteria
    /\ analysis_results \in ReviewAnalyses
    /\ paper_text \in PaperTexts
    /\ review_type = "Peer Review"
    /\ hash_seed \in 0..(HashSeeds - 1)
    /\ rng \in 0..(RngStates - 1)
    /\ review = NoReview
    /\ calls = 0
    /\ history = NoHistory
    /\ IdleProbe /\ IdleAux /\ IdleCite /\ IdleDoc

SameNumbers(r1, r2) ==
    /\ r1.detailed_scores = r2.detailed_scores
    /\ r1.overall_score = r2.overall_score
    /\ r1.recommendation = r2.recommendation
SameLists(r1, r2) ==
    /\ r1.strengths = r2.strengths
    /\ r1.weaknesses = r2.weaknesses
    /\ r1.suggestions = r2.suggestions

\* One call of generate_review with the current arguments.  It draws from the
\* random generator once per statement chosen from a pool.  history records the
\* draws and how the result compares with the previous call's.
GenerateReview ==
    /\ calls < MaxCalls
    /\ \E scores \in {_calculate_scores(paper_text, criteria, analysis_results)} :
       \E draws \in {DrawsFrom(scores, rng)} :
       \E result \in {generate_review(paper_text, criteria, review_type,
                                      analysis_results, draws, hash_seed)} :
           /\ review' = result
           /\ rng' = RngStepN(rng, Len(DrawOrder(scores)))
           /\ history' =
                IF calls = 0 THEN [kind |-> "first", draws |-> draws]
                ELSE [kind |-> "repeat", draws |-> draws,
                      same_type |-> result.review_type = review.review_type,
                      same_draws |-> draws = history.draws,
                      same_numbers |-> SameNumbers(result, review),
                      same_lists |-> SameLists(result, review),
                      same_comments |->
                          result.detailed_comments = review.detailed_comments,
                      same_summary |-> result.summary = review.summary]
    /\ calls' = calls + 1
    /\ UNCHANGED <<criteria, analysis_results, paper_text, review_type, hash_seed>>
    /\ UNCHANGED probeVars /\ UNCHANGED auxVars /\ UNCHANGED citeVars /\ UNCHANGED docVars

Next == GenerateReview
Spec == Init /\ [][Next]_vars

---------------------------------------------------------------------------
(* generate_review called again with another review style *)

StyleCriteria ==
    {[novelty |-> 8, methodology |-> 9, clarity |-> 7, significance |-> 8],
     [novelty |-> 6, methodology |-> 7, clarity |-> 7, significance |-> 7],
     [clarity |-> 9]}

InitStyle ==
    /\ criteria \in StyleCriteria
    /\ analysis_results \in {None, StrongAnalysis}
    /\ paper_text = {"neural network", "image", "improve", "system"}
    /\ review_type \in ReviewTypes
    /\ hash_seed = 0
    /\ rng \in 0..(RngStates - 1)
    /\ review = NoReview
    /\ calls = 0
    /\ history = NoHistory
    /\ IdleProbe /\ IdleAux /\ IdleCite /\ IdleDoc

\* The caller selects another review style between two calls.
ChangeReviewType(t) ==
    /\ calls = 1
    /\ t # review_type
    /\ review_type = review.review_type
    /\ review_type' = t
    /\ UNCHANGED <<criteria, analysis_results, paper_text, hash_seed, rng, review,
                   calls, history>>
    /\ UNCHANGED probeVars /\ UNCHANGED auxVars /\ UNCHANGED citeVars /\ UNCHANGED docVars

NextStyle == GenerateReview \/ \E t \in ReviewTypes : ChangeReviewType(t)
SpecStyle == InitStyle /\ [][NextStyle]_vars

---------------------------------------------------------------------------
(* Claims on the generated review *)

Reviewed == calls > 0

\* C6 as claimed: a second generate_review call with the same paper text,
\* weights, review type and analysis results returns the same scores, overall
\* score, recommendation, strengths, weaknesses, suggestions, comments and
\* summary as the first.
C6_RepeatedCallSameOutput ==
    (history.kind = "repeat" /\ history.same_type) =>
        /\ history.same_numbers
        /\ history.same_lists
        /\ history.same_comments
        /\ history.same_summary

\* C7: two generate_review calls that differ only in review_type return the
\* same per-criterion scores, overall score and recommendation; the summary is
\* the same too, and so are the three lists when the random generator yields
\* the same draws to both calls.
C7_StyleKeepsNumbers ==
    (history.kind = "repeat" /\ ~history.same_type) =>
        /\ history.same_numbers
        /\ history.same_summary
        /\ (history.same_draws => history.same_lists)

\* C7 witness: a second call with another review style, to which the generator
\* yielded the same non-empty draws, returned other comments.
C7_Witness ==
    /\ history.kind = "repeat"
    /\ ~history.same_type
    /\ history.same_draws
    /\ DOMAIN history.draws # {}
    /\ ~history.same_comments
    /\ history.same_numbers

\* C8: every review has at least 2 strengths and at least 1 weakness; with no
\* score- or feature-driven strength both generic strengths are present, and
\* with no score- or feature-driven weakness the list is the generic fallback.
C8_FallbackFills ==
    Reviewed =>
        /\ Len(review.strengths) >= 2
        /\ Len(review.weaknesses) >= 1
        /\ (ScoreStrengths(review.detailed_scores, history.draws, 1)
                \o FeatureStrengths(analysis_results) = <<>>
              => review.strengths = FallbackStrengths)
        /\ (ScoreWeaknesses(review.detailed_scores, history.draws, 1)
                \o FeatureWeaknesses(analysis_results) = <<>>
              => review.weaknesses = FallbackWeaknesses)

\* C8 witness: a review where no criterion scored 8.0 or more or 6.0 or less
\* and there were no analysis results, so both lists are the fallbacks.
C8_Witness ==
    /\ Reviewed
    /\ ~Truthy(analysis_results)
    /\ DOMAIN history.draws = {}
    /\ review.strengths = FallbackStrengths
    /\ review.weaknesses = FallbackWeaknesses

\* C9: the strengths list has at most 5 entries, the weaknesses list at most 4
\* and the suggestions list at most 6, and no list holds a statement twice.
C9_ListsCappedAndDistinct ==
    Reviewed =>
        /\ Len(review.strengths) <= 5
        /\ Len(review.weaknesses) <= 4
        /\ Len(review.suggestions) <= 6
        /\ NoDuplicates(review.strengths)
        /\ NoDuplicates(review.weaknesses)
        /\ NoDuplicates(review.suggestions)

\* C9 witness: a review whose weaknesses were cut to 4 and whose suggestions
\* were cut to 6.
C9_Witness ==
    /\ Reviewed
    /\ Len(ScoreWeaknesses(review.detailed_scores, history.draws, 1)
             \o FeatureWeaknesses(analysis_results)) > 4
    /\ Len(review.weaknesses) = 4
    /\ Len(ScoreSuggestions(review.detailed_scores, 1)
             \o FeatureSuggestions(analysis_results) \o GeneralSuggestions) > 6
    /\ Len(review.suggestions) = 6

---------------------------------------------------------------------------
(* CitationExtractor and PDFProcessor.count_citations *)

\* Raw text is spelled as a sequence of one-character strings, so that
\* str.lower() and str.strip() are computed character by character.
char_lower(c) ==
    CASE c = "L" -> "l" [] c = "I" -> "i" [] c = "A" -> "a" [] c = "B" -> "b"
      [] c = "C" -> "c" [] c = "N" -> "n" [] c = "P" -> "p" [] c = "S" -> "s"
      [] c = "X" -> "x" [] c = "E" -> "e" [] c = "M" -> "m" [] c = "R" -> "r"
      [] c = "D" -> "d" [] c = "K" -> "k"
      [] OTHER -> c
str_lower(r) == [i \in DOMAIN r |-> char_lower(r[i])]

\* The whitespace characters of the modelled alphabet (str.strip(), \s).
Whitespace == {" ", "\n"}
RECURSIVE str_lstrip(_)
str_lstrip(r) == IF r # <<>> /\ Head(r) \in Whitespace THEN str_lstrip(Tail(r)) ELSE r
RECURSIVE str_rstrip(_)
str_rstrip(r) ==
    IF r # <<>> /\ r[Len(r)] \in Whitespace
    THEN str_rstrip(SubSeq(r, 1, Len(r) - 1)) ELSE r
str_strip(r) == str_rstrip(str_lstrip(r))

\* The names of citation_patterns, in the dict's order.
citation_patterns ==
    <<"apa_author_year", "numbered_citation", "superscript_citation",
      "author_year_inline", "journal_citation">>

\* Citation markers a text may hold, each with the text the pattern matches
\* (match.group(0)): "(Li, 2020)", "(LI, 2020)", "[1]", "[2]", "x^2",
\* "Li (2020)" and "Li. A. B, 2020".
Markers ==
    {[type |-> "apa_author_year",
      raw_text |-> <<"(", "L", "i", ",", " ", "2", "0", "2", "0", ")">>],
     [type |-> "apa_author_year",
      raw_text |-> <<"(", "L", "I", ",", " ", "2", "0", "2", "0", ")">>],
     [type |-> "numbered_citation", raw_text |-> <<"[", "1", "]">>],
     [type |-> "numbered_citation", raw_text |-> <<"[", "2", "]">>],
     [type |-> "superscript_citation", raw_text |-> <<"x", "^", "2">>],
     [type |-> "author_year_inline",
      raw_text |-> <<"L", "i", " ", "(", "2", "0", "2", "0", ")">>],
     [type |-> "journal_citation",
      raw_text |-> <<"L", "i", ".", " ", "A", ".", " ", "B", ",", " ",
                     "2", "0", "2", "0">>]}

\* Largest number of citation markers in a text.
MaxMarkers == 3

\* A text is modelled by the markers that occur in it, in the order of their
\* positions, with plain lower-case words between them.
Texts == UNION {[1..n -> Markers] : n \in 0..MaxMarkers}

\* _parse_citation for the matches re.finditer(pattern, text) yields: the
\* occurrences of the pattern's markers from position i on, in position order.
RECURSIVE finditer(_, _, _)
finditer(pattern_name, text, i) ==
    IF i > Len(text) THEN <<>>
    ELSE (IF text[i].type = pattern_name
          THEN <<[type |-> pattern_name, raw_text |-> text[i].raw_text, position |-> i]>>
          ELSE <<>>)
         \o finditer(pattern_name, text, i + 1)

\* The citations list before deduplication: pattern by pattern (lines 54-60).
RECURSIVE all_matches(_, _)
all_matches(text, p) ==
    IF p > Len(citation_patterns) THEN <<>>
    ELSE finditer(citation_patterns[p], text, 1) \o all_matches(text, p + 1)

signature(citation) == str_lower(str_strip(citation.raw_text))
\* Variant: the signature without lower()
signature_as_written(citation) == str_strip(citation.raw_text)

\* _deduplicate_citations, from citation i on with `seen` the signatures so far
RECURSIVE deduplicate_from(_, _, _)
deduplicate_from(cits, seen, i) ==
    IF i > Len(cits) THEN <<>>
    ELSE IF signature(cits[i]) # <<>> /\ signature(cits[i]) \notin seen
         THEN <<cits[i]>> \o deduplicate_from(cits, seen \cup {signature(cits[i])}, i + 1)
         ELSE deduplicate_from(cits, seen, i + 1)

RECURSIVE deduplicate_case_sensitive_from(_, _, _)
deduplicate_case_sensitive_from(cits, seen, i) ==
    IF i > Len(cits) THEN <<>>
    ELSE IF signature_as_written(cits[i]) # <<>> /\ signature_as_written(cits[i]) \notin seen
         THEN <<cits[i]>>
              \o deduplicate_case_sensitive_from(
                     cits, seen \cup {signature_as_written(cits[i])}, i + 1)
         ELSE deduplicate_case_sensitive_from(cits, seen, i + 1)

\* Variant: deduplication on signatures as written
deduplicate_case_sensitive(cits) == deduplicate_case_sensitive_from(cits, {}, 1)
\* lines 268-279
_deduplicate_citations(cits) == deduplicate_from(cits, {}, 1)

extract_citations(text) ==
    IF text = <<>> THEN <<>>
    ELSE _deduplicate_citations(all_matches(text, 1))

\* What re.findall returns in count_citations for one marker: the patterns'
\* single group.  "[1]" gives "1" (pattern 1); "(Li, 2020)" gives "Li, 2020"
\* twice (patterns 2 and 4); "Li (2020)" gives itself (pattern 5); the
\* superscript and journal markers match no pattern.
findall_groups(marker) ==
    CASE marker.type \in {"numbered_citation", "apa_author_year"} ->
           {SubSeq(marker.raw_text, 2, Len(marker.raw_text) - 1)}
      [] marker.type = "author_year_inline" -> {marker.raw_text}
      [] OTHER -> {}

\* count_citations(text)['total_citations']: len(list(set(all_citations)))
count_citations_total(text) == Cardinality(UNION {findall_groups(text[i]) : i \in DOMAIN text})

NotComputed == 0 - 1
NoStats == [total_citations |-> NotComputed, counted |-> NotComputed]

InitCite ==
    /\ text_markers \in Texts
    /\ citations = <<>>
    /\ stats = NoStats
    /\ history = NoHistory
    /\ criteria = EmptyDict /\ analysis_results = None /\ paper_text = {}
    /\ review_type = "" /\ hash_seed = 0 /\ rng = 0
    /\ review = NoReview /\ calls = 0
    /\ IdleProbe /\ IdleAux /\ IdleDoc

UnchangedReviewInputs ==
    UNCHANGED <<criteria, analysis_results, paper_text, review_type, hash_seed, rng,
                review, calls>>

\* get_citation_statistics(text): extract_citations, then the statistics.
GetCitationStatistics ==
    /\ stats.total_citations = NotComputed
    /\ citations' = extract_citations(text_markers)
    /\ stats' = [stats EXCEPT !.total_citations = Len(extract_citations(text_markers))]
    /\ history' = [kind |-> "extract"]
    /\ UNCHANGED text_markers
    /\ UnchangedReviewInputs /\ UNCHANGED probeVars /\ UNCHANGED auxVars /\ UNCHANGED docVars

\* PDFProcessor.count_citations(text)
CountCitations ==
    /\ stats.counted = NotComputed
    /\ stats' = [stats EXCEPT !.counted = count_citations_total(text_markers)]
    /\ UNCHANGED <<text_markers, citations, history>>
    /\ UnchangedReviewInputs /\ UNCHANGED probeVars /\ UNCHANGED auxVars /\ UNCHANGED docVars

\* _deduplicate_citations applied to the list extract_citations returned.
DeduplicateAgain ==
    /\ history.kind = "extract"
    /\ citations' = _deduplicate_citations(citations)
    /\ history' = [kind |-> "dedup",
                   unchanged |-> _deduplicate_citations(citations) = citations]
    /\ UNCHANGED <<text_markers, stats>>
    /\ UnchangedReviewInputs /\ UNCHANGED probeVars /\ UNCHANGED auxVars /\ UNCHANGED docVars

NextCite == GetCitationStatistics \/ CountCitations \/ DeduplicateAgain
SpecCite == InitCite /\ [][NextCite]_vars

---------------------------------------------------------------------------
(* Claim on citation deduplication *)

Extracted == stats.total_citations # NotComputed
Normalized(raw_text) == str_lower(str_strip(raw_text))
MarkerTexts == {Normalized(text_markers[i].raw_text) : i \in DOMAIN text_markers}
\* The occurrences in pattern order, then position order, whatever the code does
PatternRank(type) == CHOOSE p \in DOMAIN citation_patterns : citation_patterns[p] = type
Before(i, j) ==
    \/ PatternRank(text_markers[i].type) < PatternRank(text_markers[j].type)
    \/ /\ text_markers[i].type = text_markers[j].type
       /\ i < j

\* C10: no two citations extract_citations returns have the same trimmed,
\* lower-cased raw text; of the occurrences with one such text the first in
\* pattern order is the one kept; total_citations counts every marker once,
\* however often it occurs (and so does count_citations for markers written
\* the same way); deduplicating the returned list again changes nothing.
C10_CitationDedup ==
    /\ Extracted =>
        /\ \A i, j \in DOMAIN citations :
              i # j => Normalized(citations[i].raw_text) # Normalized(citations[j].raw_text)
        /\ \A k \in DOMAIN text_markers :
              (\E i \in DOMAIN citations : citations[i].position = k)
              <=> ~\E j \in DOMAIN text_markers :
                      /\ Before(j, k)
                      /\ Normalized(text_markers[j].raw_text)
                           = Normalized(text_markers[k].raw_text)
        /\ \A i \in DOMAIN citations :
              /\ citations[i].raw_text = text_markers[citations[i].position].raw_text
              /\ citations[i].type = text_markers[citations[i].position].type
        /\ stats.total_citations = Cardinality(MarkerTexts)
    /\ stats.counted # NotComputed =>
        stats.counted <= Cardinality({text_markers[i].raw_text : i \in DOMAIN text_markers})
    /\ history.kind = "dedup" => history.unchanged

\* C10 witness: a text with three markers, two of them the same but for the
\* letters' case, was extracted into two citations, the first occurrence kept,
\* and the list was deduplicated again.
C10_Witness ==
    /\ Len(text_markers) = 3
    /\ text_markers[1].raw_text # text_markers[3].raw_text
    /\ Normalized(text_markers[1].raw_text) = Normalized(text_markers[3].raw_text)
    /\ text_markers[2].type = "numbered_citation"
    /\ history.kind = "dedup"
    /\ stats.total_citations = 2
    /\ stats.counted = 3
    /\ Len(citations) = 2
    /\ citations[1].position = 1

---------------------------------------------------------------------------
(* Claims on missing features and missing weights *)

HasField(a, g, f) == HasGroup(a, g) /\ f \in DOMAIN a.groups[g]

\* The feature the criterion's adjustment reads is there: the group (both
\* groups for significance) and at least one field the adjustment reads.
FeatureAvailable(criterion, a) ==
    CASE criterion = "novelty" -> HasField(a, "keywords", "academic_keyword_coverage")
      [] criterion = "methodology" ->
           HasField(a, "structure", "has_methodology") \/ HasField(a, "structure", "has_results")
      [] criterion = "clarity" -> HasField(a, "readability", "flesch_score")
      [] criterion = "significance" ->
           /\ HasGroup(a, "citations") /\ HasGroup(a, "academic_quality")
           /\ \/ HasField(a, "citations", "citation_density")
              \/ DOMAIN a.groups["academic_quality"] # {}

\* C11 as claimed: a criterion whose feature is not available (no analysis
\* results, the feature group missing, or the field missing inside the group)
\* scores exactly the caller-supplied weight.
C11_MissingFeatureKeepsPrior ==
    Scored =>
        \A k \in DOMAIN criteria :
            ~FeatureAvailable(k, analysis_results) =>
                ScoreOf(review.detailed_scores, k) = criteria[k] * Scale

\* The groups the criterion's adjustment branch tests are in the results.
Adjusted(criterion, a) ==
    CASE criterion = "novelty" -> HasGroup(a, "keywords")
      [] criterion = "methodology" -> HasGroup(a, "structure")
      [] criterion = "clarity" -> HasGroup(a, "readability")
      [] criterion = "significance" ->
           HasGroup(a, "citations") /\ HasGroup(a, "academic_quality")

WithWeight(crit, k, w) == [x \in DOMAIN crit \cup {k} |-> IF x = k THEN w ELSE crit[x]]

\* C12: a criterion whose key is missing from the weights mapping still gets
\* a score in [1,10]; the score is 7 when no feature adjusts the criterion, and
\* otherwise the score the same results give a weight of 7.
C12_MissingWeightUsesPrior ==
    Scored =>
        \A k \in CriterionNames \ DOMAIN criteria :
            /\ HasKey(review.detailed_scores, k)
            /\ InOneToTen(Frac(ScoreOf(review.detailed_scores, k), Scale))
            /\ ~Adjusted(k, analysis_results) =>
                   ScoreOf(review.detailed_scores, k) = 7 * Scale
            /\ ScoreOf(review.detailed_scores, k)
                 = ScoreOf(_calculate_scores(paper_text, WithWeight(criteria, k, 7),
                                             analysis_results), k)

\* C12 witness: clarity is missing from the weights while another key is
\* there, the Flesch score is 100, and clarity scored 7 + 2.
C12_Witness ==
    /\ Scored
    /\ "clarity" \notin DOMAIN criteria
    /\ "novelty" \in DOMAIN criteria
    /\ HasField(analysis_results, "readability", "flesch_score")
    /\ analysis_results.groups["readability"]["flesch_score"] = 100
    /\ ScoreOf(review.detailed_scores, "clarity") = 9 * Scale
    /\ ScoreOf(review.detailed_scores, "methodology") = 7 * Scale

---------------------------------------------------------------------------
(* Text analysis: TextAnalyzer, PDFProcessor.extract_document_structure and
   the citation extractor applied to one text *)

\* A text is a sequence of pieces joined by single spaces:
\*   sentence        "Data works."
\*   cited_sentence  "See [1]."
\*   paragraph_break "\n\n"
\*   abstract_block  "Abstract\nData works\nIntroduction"
\* The empty sequence is the empty string.
Pieces == {"sentence", "cited_sentence", "paragraph_break", "abstract_block"}

\* Largest number of pieces in a text.
MaxPieces == 3
AnalysisTexts == UNION {[1..n -> Pieces] : n \in 0..MaxPieces}

\* len(piece)
piece_chars(p) ==
    CASE p = "sentence" -> 11 [] p = "cited_sentence" -> 8
      [] p = "paragraph_break" -> 2 [] p = "abstract_block" -> 32
\* len(piece.split())
piece_split_words(p) ==
    CASE p = "sentence" -> 2 [] p = "cited_sentence" -> 2
      [] p = "paragraph_break" -> 0 [] p = "abstract_block" -> 4
\* len(re.findall(r'[.!?]+', piece))
piece_enders(p) == IF p \in {"sentence", "cited_sentence"} THEN 1 ELSE 0
\* len(word_tokenize(piece.lower())): data works . / see [ 1 ] . /
\* abstract data works introduction
piece_tokens(p) ==
    CASE p = "sentence" -> 3 [] p = "cited_sentence" -> 5
      [] p = "paragraph_break" -> 0 [] p = "abstract_block" -> 4
\* the alphabetic words of at least min_length 4 letters that are in neither
\* stop-word set ("introduction" is an academic stop word)
piece_keywords(p) ==
    CASE p = "sentence" -> <<"data", "works">>
      [] p = "abstract_block" -> <<"abstract", "data", "works">>
      [] OTHER -> <<>>
\* the citation markers in the piece
piece_markers(p) ==
    IF p = "cited_sentence"
    THEN <<[type |-> "numbered_citation", raw_text |-> <<"[", "1", "]">>]>>
    ELSE <<>>

RECURSIVE SumPieces(_, _, _)
SumPieces(text, f, i) ==
    IF i > Len(text) THEN 0 ELSE f[text[i]] + SumPieces(text, f, i + 1)
PieceTable(Op(_)) == [p \in Pieces |-> Op(p)]

\* len(text)
str_len(text) ==
    IF text = <<>> THEN 0
    ELSE SumPieces(text, PieceTable(piece_chars), 1) + (Len(text) - 1)

\* [p for p in text.split('\n\n') if p.strip()]: the runs of pieces between
\* paragraph breaks
paragraph_count(text) ==
    Cardinality({i \in DOMAIN text :
                    /\ text[i] # "paragraph_break"
                    /\ (i = 1 \/ text[i - 1] = "paragraph_break")})

\* The texts over which the NLTK tokenizers are modelled: those with at most
\* one piece that holds words.
WordPieces(text) == {i \in DOMAIN text : text[i] # "paragraph_break"}
Tokenizable(text) == Cardinality(WordPieces(text)) <= 1

\* TextAnalyzer.get_text_statistics: the four counts of the returned dict
get_text_statistics(text) ==
    IF text = <<>> THEN EmptyDict
    ELSE [word_count |-> SumPieces(text, PieceTable(piece_tokens), 1),
          sentence_count |-> Cardinality(WordPieces(text)),
          paragraph_count |-> paragraph_count(text),
          character_count |-> str_len(text)]

\* TextAnalyzer.extract_keywords for a text of fewer than two sentences:
\* Counter(words).most_common(max_keywords), every word counted once
RECURSIVE keyword_words(_, _)
keyword_words(text, i) ==
    IF i > Len(text) THEN <<>>
    ELSE piece_keywords(text[i]) \o keyword_words(text, i + 1)
extract_keywords(text) ==
    IF text = <<>> THEN <<>>
    ELSE [i \in DOMAIN keyword_words(text, 1) |-> <<keyword_words(text, 1)[i], 1>>]

\* PDFProcessor.extract_sections: the keys of the returned dict.  The abstract
\* pattern matches up to the line "Introduction"; the introduction pattern
\* needs a newline after its content, which only a final paragraph break gives.
extract_sections(text) ==
    IF \E i \in DOMAIN text : text[i] = "abstract_block"
    THEN {"abstract"}
         \cup (IF text[Len(text)] = "paragraph_break" THEN {"introduction"} ELSE {})
    ELSE {}

\* PDFProcessor.extract_document_structure
extract_document_structure(text) ==
    [total_words |-> SumPieces(text, PieceTable(piece_split_words), 1),
     total_sentences |-> SumPieces(text, PieceTable(piece_enders), 1),
     total_paragraphs |-> paragraph_count(text),
     sections |-> extract_sections(text),
     figures_mentioned |-> 0,
     tables_mentioned |-> 0,
     equations_mentioned |-> 0]

RECURSIVE markers_of(_, _)
markers_of(text, i) ==
    IF i > Len(text) THEN <<>> ELSE piece_markers(text[i]) \o markers_of(text, i + 1)

\* CitationExtractor.extract_citations on a text of pieces
extract_citations_of_text(text) ==
    IF text = <<>> THEN <<>> ELSE extract_citations(markers_of(text, 1))

\* CitationExtractor.extract_references: no piece holds a references header,
\* so _find_references_section returns None
extract_references(text) ==
    IF text = <<>> THEN <<>> ELSE <<>>

InitAnalyze ==
    /\ text_markers \in AnalysisTexts
    /\ citations = <<>>
    /\ stats = EmptyDict
    /\ history = NoHistory
    /\ criteria = EmptyDict /\ analysis_results = None /\ paper_text = {}
    /\ review_type = "" /\ hash_seed = 0 /\ rng = 0
    /\ review = NoReview /\ calls = 0
    /\ IdleProbe /\ IdleAux /\ IdleDoc

Record(op, result) ==
    /\ op \notin DOMAIN stats
    /\ stats' = [o \in DOMAIN stats \cup {op} |-> IF o = op THEN result ELSE stats[o]]
    /\ UNCHANGED <<text_markers, citations, history>>
    /\ UnchangedReviewInputs /\ UNCHANGED probeVars /\ UNCHANGED auxVars /\ UNCHANGED docVars

GetTextStatistics ==
    /\ Tokenizable(text_markers)
    /\ Record("get_text_statistics", get_text_statistics(text_markers))
ExtractKeywords ==
    /\ Tokenizable(text_markers)
    /\ Record("extract_keywords", extract_keywords(text_markers))
ExtractDocumentStructure ==
    Record("extract_document_structure", extract_document_structure(text_markers))
ExtractCitations ==
    Record("extract_citations", extract_citations_of_text(text_markers))
ExtractReferences ==
    Record("extract_references", extract_references(text_markers))

NextAnalyze ==
    \/ GetTextStatistics
    \/ ExtractKeywords
    \/ ExtractDocumentStructure
    \/ ExtractCitations
    \/ ExtractReferences
SpecAnalyze == InitAnalyze /\ [][NextAnalyze]_vars

---------------------------------------------------------------------------
(* Claim on the analysis of the empty string *)

CountFields == {"word_count", "sentence_count", "paragraph_count", "character_count"}
Done(op) == op \in DOMAIN stats

\* C13 as claimed: the analysis of the empty string reports all counts as
\* zero, an empty keyword list, an empty section map and empty citation and
\* reference lists.
C13_EmptyTextZeroCounts ==
    text_markers = <<>> =>
        /\ Done("get_text_statistics") =>
              \A f \in CountFields :
                  /\ f \in DOMAIN stats["get_text_statistics"]
                  /\ stats["get_text_statistics"][f] = 0
        /\ Done("extract_document_structure") =>
              /\ stats["extract_document_structure"].total_words = 0
              /\ stats["extract_document_structure"].total_sentences = 0
              /\ stats["extract_document_structure"].total_paragraphs = 0
              /\ stats["extract_document_structure"].sections = {}
        /\ Done("extract_keywords") => stats["extract_keywords"] = <<>>
        /\ Done("extract_citations") => stats["extract_citations"] = <<>>
        /\ Done("extract_references") => stats["extract_references"] = <<>>

---------------------------------------------------------------------------
(* Text extraction: PDFProcessor.extract_text_from_pdf and                 *)
(* extract_text_from_docx (src/utils/pdf_processor.py) and the             *)
(* extract_text_from_pdf of academic_research_analyzer/utils/pdf_utils.py. *)
(*                                                                         *)
(* An uploaded document is what the decoding library makes of it: either   *)
(* it cannot be opened (fitz.open / Document raise), or it has pages       *)
(* (paragraphs, for DOCX) of raw text and, for DOCX, tables of cell texts. *)
(* Raw text is a sequence of one-character strings over the letter "a",    *)
(* the space, the newline and the NUL character "\x00", spelled "NUL".     *)
(***************************************************************************)

MaxPages == 2

\* Raw page, paragraph and cell texts.
PageTexts ==
    {<<>>, <<" ">>, <<"\n">>, <<"NUL">>, <<"a">>, <<" ", "a", "\n">>,
     <<"a", "\n", "a">>, <<"a", " ", " ", "a">>, <<"a", " ", "NUL", " ", "a">>}
CellTexts == {<<>>, <<" ">>, <<"a">>}

PdfUploads ==
    {[format |-> "pdf", readable |-> r, pages |-> p, tables |-> <<>>] :
        r \in BOOLEAN, p \in UNION {[1..n -> PageTexts] : n \in 0..MaxPages}}
DocxUploads ==
    {[format |-> "docx", readable |-> r, pages |-> p, tables |-> t] :
        r \in BOOLEAN,
        p \in UNION {[1..n -> PageTexts] : n \in 0..(MaxPages - 1)},
        t \in UNION {[1..n -> UNION {[1..m -> CellTexts] : m \in 0..1}] : n \in 0..1}}

\* What a call gives back: a str, a dict, None, or a raised exception.
PyStr(text) == [kind |-> "str", value |-> text]
PyNone == [kind |-> "None", value |-> <<>>]
PyDict(fields) == [kind |-> "dict", value |-> fields]
Raised == [kind |-> "raised", value |-> <<>>]

\* re.sub(r'\s+', ' ', text)
RECURSIVE collapse_whitespace(_)
collapse_whitespace(text) ==
    IF text = <<>> THEN <<>>
    ELSE IF Head(text) \in Whitespace
         THEN <<" ">> \o collapse_whitespace(str_lstrip(Tail(text)))
         ELSE <<Head(text)>> \o collapse_whitespace(Tail(text))

\* text.replace(old, '') for a one-character old
RECURSIVE str_remove(_, _)
str_remove(text, old) ==
    IF text = <<>> THEN <<>>
    ELSE (IF Head(text) = old THEN <<>> ELSE <<Head(text)>>) \o str_remove(Tail(text), old)

\* text.split('\n')
RECURSIVE split_lines(_)
split_lines(text) ==
    IF \A i \in DOMAIN text : text[i] # "\n" THEN <<text>>
    ELSE LET i == CHOOSE j \in DOMAIN text :
                      text[j] = "\n" /\ \A k \in 1..(j - 1) : text[k] # "\n"
         IN  <<SubSeq(text, 1, i - 1)>> \o split_lines(SubSeq(text, i + 1, Len(text)))

\* '\n'.join(lines)
RECURSIVE join_lines(_)
join_lines(lines) ==
    IF lines = <<>> THEN <<>>
    ELSE IF Len(lines) = 1 THEN lines[1]
    ELSE lines[1] \o <<"\n">> \o join_lines(Tail(lines))

\* the lines kept by `if line: cleaned_lines.append(line)`
RECURSIVE non_empty_lines(_)
non_empty_lines(lines) ==
    IF lines = <<>> THEN <<>>
    ELSE (IF Head(lines) # <<>> THEN <<Head(lines)>> ELSE <<>>)
         \o non_empty_lines(Tail(lines))

\* _clean_page_text: every line stripped and its whitespace collapsed, the
\* empty lines dropped.
_clean_page_text(text) ==
    IF text = <<>> THEN <<>>
    ELSE LET lines == split_lines(text)
             cleaned == [i \in DOMAIN lines |-> collapse_whitespace(str_strip(lines[i]))]
         IN  join_lines(non_empty_lines(cleaned))

\* _clean_text: whitespace collapsed to single spaces, "\x00" removed, the
\* result stripped.  The page-number, heading and case-boundary substitutions
\* never match a text over this alphabet once its newlines are collapsed.
_clean_text(text) ==
    IF text = <<>> THEN <<>>
    ELSE str_strip(str_remove(collapse_whitespace(text), "NUL"))

\* return text if text.strip() else None
text_or_none(text) == IF str_strip(text) # <<>> THEN PyStr(text) ELSE PyNone

RECURSIVE ConcatMap(_, _, _)
\* the loop `for x in items: text += f(x) + sep`
ConcatMap(items, f(_), sep) ==
    IF items = <<>> THEN <<>>
    ELSE f(Head(items)) \o sep \o ConcatMap(Tail(items), f, sep)

Identity(x) == x

\* PDFProcessor.extract_text_from_pdf: any exception of the decoding gives None.
extract_text_from_pdf(file) ==
    IF ~file.readable THEN PyNone
    ELSE text_or_none(_clean_text(ConcatMap(file.pages, _clean_page_text, <<"\n">>)))

\* one table of a DOCX document: every cell's text and a space, then a newline
table_text(table) == ConcatMap(table, Identity, <<" ">>) \o <<"\n">>

\* PDFProcessor.extract_text_from_docx
extract_text_from_docx(file) ==
    IF ~file.readable THEN PyNone
    ELSE text_or_none(_clean_text(ConcatMap(file.pages, Identity, <<"\n">>)
                                  \o ConcatMap(file.tables, table_text, <<>>)))

\* pdf_utils.extract_text_from_pdf: no try/except around fitz.open, the raw
\* page texts concatenated.
pdf_utils_extract_text_from_pdf(file) ==
    IF ~file.readable THEN Raised
    ELSE PyStr(ConcatMap(file.pages, Identity, <<>>))

InitExtract ==
    /\ uploaded_file \in PdfUploads \cup DocxUploads
    /\ IdleRefs
    /\ text_markers = <<>> /\ citations = <<>>
    /\ stats = EmptyDict
    /\ history = NoHistory
    /\ criteria = EmptyDict /\ analysis_results = None /\ paper_text = {}
    /\ review_type = "" /\ hash_seed = 0 /\ rng = 0
    /\ review = NoReview /\ calls = 0
    /\ IdleProbe /\ IdleAux

RecordExtraction(op, result) ==
    /\ op \notin DOMAIN stats
    /\ stats' = [o \in DOMAIN stats \cup {op} |-> IF o = op THEN result ELSE stats[o]]
    /\ UNCHANGED <<text_markers, citations, history, uploaded_file, ref_section,
                    references>>
    /\ UnchangedReviewInputs /\ UNCHANGED probeVars /\ UNCHANGED auxVars

\* app_enhanced.py: processor.extract_text_from_pdf(uploaded_file) for a PDF upload
ExtractTextFromPdf ==
    /\ uploaded_file.format = "pdf"
    /\ RecordExtraction("extract_text_from_pdf", extract_text_from_pdf(uploaded_file))
\* app_enhanced.py: processor.extract_text_from_docx(uploaded_file) for a DOCX upload
ExtractTextFromDocx ==
    /\ uploaded_file.format = "docx"
    /\ RecordExtraction("extract_text_from_docx", extract_text_from_docx(uploaded_file))
\* 1_Paper_Analyzer.py: extract_text_from_pdf(temp_path)
PdfUtilsExtractTextFromPdf ==
    /\ uploaded_file.format = "pdf"
    /\ RecordExtraction("pdf_utils.extract_text_from_pdf",
                        pdf_utils_extract_text_from_pdf(uploaded_file))

NextExtract ==
    \/ ExtractTextFromPdf
    \/ ExtractTextFromDocx
    \/ PdfUtilsExtractTextFromPdf
SpecExtract == InitExtract /\ [][NextExtract]_vars

---------------------------------------------------------------------------
(* Claim on failed and empty extractions *)

\* The document cannot be decoded, or decoding it yields no text.
NoTextIn(file) ==
    \/ ~file.readable
    \/ /\ \A i \in DOMAIN file.pages : file.pages[i] = <<>>
       /\ \A i \in DOMAIN file.tables : \A j \in DOMAIN file.tables[i] :
              file.tables[i][j] = <<>>

\* C14 as claimed: whenever decoding the uploaded document fails or yields no
\* text, each text-extraction operation returns the empty string and does not
\* raise.
C14_EmptyStringOnFailure ==
    NoTextIn(uploaded_file) =>
        \A op \in DOMAIN stats : stats[op] = PyStr(<<>>)

---------------------------------------------------------------------------
(* Claims on the methodology and clarity adjustments *)

\* The prior of a criterion: its weight, or the neutral prior without one.
PriorOf(criterion) == Get(criteria, criterion, NEUTRAL_PRIOR)

\* How many of the methodology and results sections the structure features
\* report as present.
SectionsPresent(a) ==
    LET structure == a.groups["structure"]
    IN  (IF Get(structure, "has_methodology", FALSE) THEN 1 ELSE 0)
        + (IF Get(structure, "has_results", FALSE) THEN 1 ELSE 0)

\* C15 as claimed: with structure features available, the methodology score is
\* the prior plus 0, 1 or 2 for none, one or both of the methodology and
\* results sections, clamped to [1,10].
C15_Claimed ==
    (Scored /\ FeatureAvailable("methodology", analysis_results)) =>
        ScoreOf(review.detailed_scores, "methodology")
            = Clamp((PriorOf("methodology") + SectionsPresent(analysis_results)) * Scale)

\* C15 amended: with structure features available, the methodology score is
\* the prior minus 1 with neither section, the prior itself with exactly one,
\* and the prior plus 1 with both, clamped to [1,10].
C15_MethodologyBySections ==
    (Scored /\ FeatureAvailable("methodology", analysis_results)) =>
        LET score == ScoreOf(review.detailed_scores, "methodology")
            prior == PriorOf("methodology")
            n == SectionsPresent(analysis_results)
        IN  /\ n = 0 => score = Max(1, prior - 1) * Scale
            /\ n = 1 => score = prior * Scale
            /\ n = 2 => score = Min(10, prior + 1) * Scale

\* Both sections present with weight 9: the score is 10, one above the prior.
C15_Witness ==
    /\ Scored
    /\ FeatureAvailable("methodology", analysis_results)
    /\ SectionsPresent(analysis_results) = 2
    /\ PriorOf("methodology") = 9
    /\ ScoreOf(review.detailed_scores, "methodology") = 10 * Scale

\* The Flesch score the readability features carry.
FleschOf(a) == a.groups["readability"]["flesch_score"]

\* The same analysis results with another Flesch score.
WithFlesch(a, f) ==
    Dict([g \in DOMAIN a.groups |->
            IF g = "readability"
            THEN [k \in DOMAIN a.groups[g] |->
                    IF k = "flesch_score" THEN f ELSE a.groups[g][k]]
            ELSE a.groups[g]])

\* The clarity score of the otherwise identical document with Flesch score f.
ClarityWithFlesch(f) ==
    ScoreOf(_calculate_scores(paper_text, criteria, WithFlesch(analysis_results, f)),
            "clarity")

\* C16: for equal weights the clarity score is non-decreasing in the Flesch
\* score, it lies within 2 points of the prior for Flesch scores in 0..100
\* (exactly 2 above at Flesch 100 and 2 below at Flesch 0 where the clamp
\* allows), and the document with Flesch score 75 has a strictly higher
\* clarity score than the otherwise identical one with Flesch score 35.
C16_ClarityFollowsFlesch ==
    (Scored /\ HasField(analysis_results, "readability", "flesch_score")) =>
        LET clarity == ScoreOf(review.detailed_scores, "clarity")
            flesch == FleschOf(analysis_results)
            prior == PriorOf("clarity")
        IN  /\ clarity = ClarityWithFlesch(flesch)
            /\ \A f \in FleschValues : f >= flesch => ClarityWithFlesch(f) >= clarity
            /\ (flesch >= 0 /\ flesch <= 100) =>
                   /\ clarity >= (prior - 2) * Scale
                   /\ clarity <= (prior + 2) * Scale
            /\ flesch = 100 => clarity = Min(10, prior + 2) * Scale
            /\ flesch = 0 => clarity = Max(1, prior - 2) * Scale
            /\ flesch = 75 => clarity > ClarityWithFlesch(35)

\* Weight 10 and Flesch score 75: the score is clamped to 10, and the
\* otherwise identical document with Flesch score 35 scores below it.
C16_Witness ==
    /\ Scored
    /\ HasField(analysis_results, "readability", "flesch_score")
    /\ FleschOf(analysis_results) = 75
    /\ PriorOf("clarity") = 10
    /\ ScoreOf(review.detailed_scores, "clarity") = 10 * Scale
    /\ ClarityWithFlesch(35) < 10 * Scale
    /\ ClarityWithFlesch(35) > 9 * Scale

---------------------------------------------------------------------------
(* Claims on the score-driven and feature-driven statements *)

\* How many entries of a returned list are statements of the pool.
CountIn(list, pool) == Cardinality({i \in DOMAIN list : list[i] \in SeqToSet(pool)})

\* C17: every criterion scoring 8.0 or more has exactly one statement of its
\* strength pool in the returned strengths, the one random.choice drew, and
\* every criterion scoring 6.0 or less exactly one statement of its weakness
\* pool in the returned weaknesses; the cuts to 5 and 4 entries remove none.
C17_OneStatementPerCriterion ==
    Reviewed =>
        \A i \in DOMAIN review.detailed_scores :
            LET criterion == review.detailed_scores[i][1]
                score == review.detailed_scores[i][2]
            IN  /\ score >= 8 * Scale =>
                     /\ CountIn(review.strengths, StrengthPool(criterion)) = 1
                     /\ \E j \in DOMAIN review.strengths :
                            review.strengths[j]
                              = random_choice(StrengthPool(criterion), history.draws[criterion])
                /\ score <= 6 * Scale =>
                     /\ CountIn(review.weaknesses, WeaknessPool(criterion)) = 1
                     /\ \E j \in DOMAIN review.weaknesses :
                            review.weaknesses[j]
                              = random_choice(WeaknessPool(criterion), history.draws[criterion])

\* Four criteria scoring 6.0 or less and four feature-driven weaknesses: the
\* returned list is cut to 4 and holds the four score-driven statements.
C17_Witness ==
    /\ Reviewed
    /\ \A i \in DOMAIN review.detailed_scores : review.detailed_scores[i][2] <= 6 * Scale
    /\ Len(review.detailed_scores) = 4
    /\ Len(FeatureWeaknesses(analysis_results)) = 4
    /\ review.weaknesses = ScoreWeaknesses(review.detailed_scores, history.draws, 1)

\* The field of a feature group is reported and satisfies the test.
Reported(a, g, f, Test(_)) == HasField(a, g, f) /\ Test(a.groups[g][f])

BelowForty(x) == x < 40
BelowThreeTenths(x) == x < 3
BelowHalf(x) == x < 5
IsFalse(x) == x = FALSE

\* C18 as claimed: a reported Flesch score below 40, citation density below
\* 0.3, missing methodology section or abstract quality below 0.5 always has
\* its weakness statement in the returned weaknesses, whatever the scores.
C18_FeatureWeaknessesReturned ==
    Reviewed =>
        LET returned == SeqToSet(review.weaknesses)
            a == analysis_results
        IN  /\ Reported(a, "readability", "flesch_score", BelowForty) =>
                 "The text complexity may hinder accessibility to broader audiences"
                     \in returned
            /\ Reported(a, "structure", "has_methodology", IsFalse) =>
                 "The methodology section needs strengthening or clarification"
                     \in returned
            /\ Reported(a, "structure", "abstract_quality", BelowHalf) =>
                 "The abstract could be more comprehensive and informative" \in returned
            /\ Reported(a, "citations", "citation_density", BelowThreeTenths) =>
                 "The literature review could be more comprehensive" \in returned

AtLeastSeventy(x) == x >= 70

\* C19: a reported Flesch score of 70 or more always has the readability
\* strength statement in the returned strengths, whatever the scores: at most
\* four score-driven strengths precede it, so the cut to 5 keeps it.
C19_ReadabilityStrengthReturned ==
    (Reviewed /\ Reported(analysis_results, "readability", "flesch_score", AtLeastSeventy)) =>
        \E j \in DOMAIN review.strengths :
            /\ review.strengths[j]
                 = "The paper demonstrates excellent readability and accessibility"
            /\ j = Len(ScoreStrengths(review.detailed_scores, history.draws, 1)) + 1

\* Four criteria scoring 8.0 or more and three feature-driven strengths: the
\* list is cut to 5 and the readability statement is its last entry.
C19_Witness ==
    /\ Reviewed
    /\ Reported(analysis_results, "readability", "flesch_score", AtLeastSeventy)
    /\ Len(ScoreStrengths(review.detailed_scores, history.draws, 1)) = 4
    /\ Len(FeatureStrengths(analysis_results)) = 3
    /\ Len(review.strengths) = 5
    /\ review.strengths[5] = "The paper demonstrates excellent readability and accessibility"

---------------------------------------------------------------------------
(* CitationExtractor._split_references (src/utils/citation_extractor.py).  *)
(* The references section is raw text, a sequence of one-character         *)
(* strings; the three split patterns are matched character by character.   *)
(***************************************************************************)

MaxLines == 3

UpperChars == {"S", "J"}
LowerChars == {"m", "x", "a", "n", "d"}
Letters == UpperChars \cup LowerChars
Digits == {"0", "1", "2"}

\* n filler letters
Fill(n) == [i \in 1..n |-> "x"]

\* Lines a references section is made of: numbered, "Lastname, F." and
\* "Name (Year)" entries, plain and blank lines, of 20 characters or fewer and
\* of more than 20.
RefLines ==
    {<<"[", "1", "]", " ">> \o Fill(17),                          \* 21: numbered
     <<"[", "2", "]", " ">> \o Fill(16),                          \* 20: numbered
     <<"S", "m", ",", " ", "J", ".", " ">> \o Fill(14),           \* 21: author
     <<"S", "m", ",", " ", "J", ".">>,                            \*  6: author
     <<"S", "m", " ", "(", "2", "0", "2", "0", ")", " ">> \o Fill(11),  \* 21: name (year)
     <<"S", "m", " ", "a", "n", "d">>,                            \*  6: letters only
     Fill(21),                                                    \* 21: plain
     <<" ">> \o Fill(20) \o <<" ">>,                              \* 22, stripped 20
     <<>>}                                                        \* blank

\* '\n'.join(lines)
RefSections == {join_lines(ls) : ls \in UNION {[1..n -> RefLines] : n \in 1..MaxLines}}

At(text, i) == IF i \in DOMAIN text THEN text[i] ELSE "EOF"

\* text[i..j] is non-empty and all of its characters are in the class
Run(text, i, j, class) == j >= i /\ \A k \in i..j : At(text, k) \in class

\* \[\d+\] matches at position i
numbered_at(text, i) ==
    /\ At(text, i) = "["
    /\ \E j \in (i + 1)..Len(text) :
          Run(text, i + 1, j, Digits) /\ At(text, j + 1) = "]"

\* [A-Z][a-zA-Z]+,\s+[A-Z] matches at position i
author_at(text, i) ==
    /\ At(text, i) \in UpperChars
    /\ \E j \in (i + 1)..Len(text) :
          /\ Run(text, i + 1, j, Letters)
          /\ At(text, j + 1) = ","
          /\ \E k \in (j + 2)..Len(text) :
                Run(text, j + 2, k, Whitespace) /\ At(text, k + 1) \in UpperChars

\* [A-Z][a-zA-Z\s]+\(\d{4}\) matches at position i
name_year_at(text, i) ==
    /\ At(text, i) \in UpperChars
    /\ \E j \in (i + 1)..Len(text) :
          /\ Run(text, i + 1, j, Letters \cup Whitespace)
          /\ At(text, j + 1) = "("
          /\ Run(text, j + 2, j + 5, Digits)
          /\ At(text, j + 6) = ")"

\* split_patterns, in the list's order
split_patterns == <<"numbered", "author", "name_year">>

lookahead(pattern, text, i) ==
    CASE pattern = "numbered" -> numbered_at(text, i)
      [] pattern = "author" -> author_at(text, i)
      [] pattern = "name_year" -> name_year_at(text, i)
      [] pattern = "line" -> TRUE

\* The positions of the newlines the pattern \n(?=...) matches.
boundaries(pattern, text) ==
    {i \in DOMAIN text : text[i] = "\n" /\ lookahead(pattern, text, i + 1)}

\* re.split(pattern, text): the text between the matched newlines.
RECURSIVE split_from(_, _, _)
split_from(text, cuts, start) ==
    IF \A c \in cuts : c < start THEN <<SubSeq(text, start, Len(text))>>
    ELSE LET c == CHOOSE x \in cuts : x >= start /\ \A y \in cuts : y >= start => x <= y
         IN  <<SubSeq(text, start, c - 1)>> \o split_from(text, cuts, c + 1)
re_split(pattern, text) == split_from(text, boundaries(pattern, text), 1)

\* [x.strip() for x in parts]
strip_all(parts) == [i \in DOMAIN parts |-> str_strip(parts[i])]

\* [ref for ref in parts if len(ref) > 20]
RECURSIVE longer_than_20(_)
longer_than_20(parts) ==
    IF parts = <<>> THEN <<>>
    ELSE (IF Len(Head(parts)) > 20 THEN <<Head(parts)>> ELSE <<>>)
         \o longer_than_20(Tail(parts))

\* Variant: the loop without its break, the last splitting pattern wins
RECURSIVE last_split(_, _, _)
last_split(patterns, text, i) ==
    IF i > Len(patterns) THEN <<>>
    ELSE LET parts == re_split(patterns[i], text)
             later == last_split(patterns, text, i + 1)
         IN  IF later # <<>> THEN later
             ELSE IF Len(parts) > 1 THEN parts ELSE <<>>

\* the loop over split_patterns from index i, with its break
RECURSIVE first_split(_, _, _)
first_split(patterns, text, i) ==
    IF i > Len(patterns) THEN <<>>
    ELSE LET parts == re_split(patterns[i], text)
         IN  IF Len(parts) > 1 THEN parts ELSE first_split(patterns, text, i + 1)

\* lines 237-264
_split_references(text) ==
    LET split == first_split(split_patterns, text, 1)
        found == IF split = <<>>
                 THEN longer_than_20(strip_all(re_split("line", text)))
                 ELSE split
    IN  longer_than_20(non_empty_lines(strip_all(found)))

InitSplit ==
    /\ ref_section \in RefSections
    /\ references = NotSplit
    /\ uploaded_file = NoUpload
    /\ text_markers = <<>> /\ citations = <<>> /\ stats = <<>>
    /\ history = NoHistory
    /\ criteria = EmptyDict /\ analysis_results = None /\ paper_text = {}
    /\ review_type = "" /\ hash_seed = 0 /\ rng = 0
    /\ review = NoReview /\ calls = 0
    /\ IdleProbe /\ IdleAux

\* extract_references: ref_lines = self._split_references(ref_section)
SplitReferences ==
    /\ ~references.done
    /\ references' = [done |-> TRUE, value |-> _split_references(ref_section)]
    /\ UNCHANGED <<ref_section, uploaded_file, history>>
    /\ UNCHANGED citeVars /\ UnchangedReviewInputs /\ UNCHANGED probeVars /\ UNCHANGED auxVars

NextSplit == SplitReferences
SpecSplit == InitSplit /\ [][NextSplit]_vars

---------------------------------------------------------------------------
(* Claim on reference splitting *)

\* The pattern splits the section into more than one part.
Splits(pattern) == boundaries(pattern, ref_section) # {}

\* The parts of the split by the pattern that are, once stripped, longer than
\* 20 characters.
EntriesBy(pattern) == longer_than_20(strip_all(re_split(pattern, ref_section)))

\* C20: the returned entries are those of the split at numbered markers when
\* it gives more than one part; otherwise those of the split at "Lastname, F."
\* when that gives more than one part; otherwise those of the split at
\* "Name (Year)"; the stripped lines only when none of the three splits; and
\* every returned entry is longer than 20 characters.
C20_FirstSplittingPattern ==
    references.done =>
        /\ Splits("numbered") => references.value = EntriesBy("numbered")
        /\ (~Splits("numbered") /\ Splits("author")) =>
               references.value = EntriesBy("author")
        /\ (~Splits("numbered") /\ ~Splits("author") /\ Splits("name_year")) =>
               references.value = EntriesBy("name_year")
        /\ (~Splits("numbered") /\ ~Splits("author") /\ ~Splits("name_year")) =>
               references.value = EntriesBy("line")
        /\ \A i \in DOMAIN references.value : Len(references.value[i]) > 20

\* A section that both the author and the name-year pattern split and the
\* numbered pattern does not: the entries are those of the author split, which
\* differ from those of the name-year split and from the lines.
C20_Witness ==
    /\ references.done
    /\ ~Splits("numbered") /\ Splits("author") /\ Splits("name_year")
    /\ references.value = EntriesBy("author")
    /\ references.value # <<>>
    /\ EntriesBy("author") # EntriesBy("name_year")
    /\ EntriesBy("author") # EntriesBy("line")

---------------------------------------------------------------------------
(* CitationExtractor._parse_reference (src/utils/citation_extractor.py):   *)
(* the publication type of a reference.  A reference text is raw text, a   *)
(* sequence of one-character strings; `term in ref_lower` is the substring *)
(* test on the lower-cased text.                                           *)
(***************************************************************************)

MaxWords == 2

\* The review, probe, citation and document variables at rest.
IdleReview ==
    /\ history = NoHistory
    /\ criteria = EmptyDict /\ analysis_results = None /\ paper_text = {}
    /\ review_type = "" /\ hash_seed = 0 /\ rng = 0
    /\ review = NoReview /\ calls = 0
UnchangedPipeline ==
    /\ UnchangedReviewInputs /\ UNCHANGED history
    /\ UNCHANGED probeVars /\ UNCHANGED citeVars /\ UNCHANGED docVars

\* self.academic_venues
academic_venues ==
    {<<"n", "a", "t", "u", "r", "e">>,
     <<"s", "c", "i", "e", "n", "c", "e">>,
     <<"c", "e", "l", "l">>,
     <<"l", "a", "n", "c", "e", "t">>,
     <<"n", "e", "j", "m">>,
     <<"p", "n", "a", "s">>,
     <<"j", "a", "m", "a">>,
     <<"i", "e", "e", "e">>,
     <<"a", "c", "m">>,
     <<"s", "p", "r", "i", "n", "g", "e", "r">>,
     <<"e", "l", "s", "e", "v", "i", "e", "r">>,
     <<"w", "i", "l", "e", "y">>,
     <<"o", "x", "f", "o", "r", "d">>,
     <<"j", "o", "u", "r", "n", "a", "l">>,
     <<"p", "r", "o", "c", "e", "e", "d", "i", "n", "g", "s">>,
     <<"c", "o", "n", "f", "e", "r", "e", "n", "c", "e">>,
     <<"w", "o", "r", "k", "s", "h", "o", "p">>,
     <<"s", "y", "m", "p", "o", "s", "i", "u", "m">>}

\* Words a reference text is made of.
RefWords ==
    {<<"N", "a", "t", "u", "r", "e">>,
     <<"a", "r", "X", "i", "v">>,
     <<"P", "r", "o", "c", "e", "e", "d", "i", "n", "g", "s">>,
     <<"C", "o", "n", "f", "e", "r", "e", "n", "c", "e">>,
     <<"B", "o", "o", "k">>,
     <<"P", "r", "e", "s", "s">>,
     <<"e", "x", "c", "e", "l", "l", "e", "n", "t">>,
     <<"S", "m", "i", "t", "h">>,
     <<"r", "e", "p", "o", "r", "t">>,
     <<"2", "0", "2", "0">>}

\* ' '.join(words)
RECURSIVE join_words(_)
join_words(words) ==
    IF words = <<>> THEN <<>>
    ELSE IF Len(words) = 1 THEN words[1]
    ELSE words[1] \o <<" ">> \o join_words(Tail(words))

RefTexts == {join_words(ws) : ws \in UNION {[1..n -> RefWords] : n \in 1..MaxWords}}

\* term in text
contains(text, term) ==
    \E i \in 1..(Len(text) - Len(term) + 1) : SubSeq(text, i, i + Len(term) - 1) = term

\* re.search(r'\b(19|20)\d{2}\b', ref_text): the texts of RefTexts hold no
\* other digits than the word 2020.
year_of(text) == IF contains(text, <<"2", "0", "2", "0">>) THEN 2020 ELSE 0

\* lines 192-201
publication_type(ref_lower) ==
    IF \E venue \in academic_venues : contains(ref_lower, venue) THEN "journal"
    ELSE IF contains(ref_lower, <<"a", "r", "x", "i", "v">>) THEN "preprint"
    ELSE IF \/ contains(ref_lower, <<"p", "r", "o", "c", "e", "e", "d", "i", "n", "g", "s">>)
            \/ contains(ref_lower, <<"c", "o", "n", "f", "e", "r", "e", "n", "c", "e">>)
         THEN "conference"
    ELSE IF \/ contains(ref_lower, <<"b", "o", "o", "k">>)
            \/ contains(ref_lower, <<"p", "r", "e", "s", "s">>)
         THEN "book"
    ELSE "unknown"

\* _parse_reference: None for a text of fewer than 10 characters once
\* stripped; the DOI, URL, volume, page, author and title patterns need
\* characters (".", "(", ":", '"') no text of RefTexts holds, so those fields
\* are never set.
_parse_reference(text) ==
    IF text = <<>> \/ Len(str_strip(text)) < 10 THEN PyNone
    ELSE [kind |-> "dict",
          value |-> [raw_text |-> str_strip(text), type |-> "reference",
                     year |-> year_of(text),
                     publication_type |-> publication_type(str_lower(text))]]

InitParse ==
    /\ ref_text \in RefTexts
    /\ reference = NotParsed
    /\ IdleReview /\ IdleProbe /\ IdleCite /\ IdleDoc /\ IdleGrammar /\ IdleFeedback

\* extract_references: reference = self._parse_reference(ref_line)
ParseReference ==
    /\ ~reference.done
    /\ reference' = [done |-> TRUE, value |-> _parse_reference(ref_text)]
    /\ UNCHANGED ref_text
    /\ UNCHANGED grammarVars /\ UNCHANGED feedbackVars
    /\ UnchangedPipeline

NextParse == ParseReference
SpecParse == InitParse /\ [][NextParse]_vars

---------------------------------------------------------------------------
(* Claim on the publication type *)

PublicationTypes == {"journal", "preprint", "conference", "book", "unknown"}

\* The journal venue and publisher terms: the venue vocabulary without the
\* conference words.
JournalTerms == academic_venues \ {<<"p", "r", "o", "c", "e", "e", "d", "i", "n", "g", "s">>, <<"c", "o", "n", "f", "e", "r", "e", "n", "c", "e">>}

Mentions(term) == contains(str_lower(ref_text), term)
Parsed == reference.done /\ reference.value.kind = "dict"
TypeOf == reference.value.value.publication_type

\* C21 as claimed: every parsed reference has one of the five types; in the
\* order journal, preprint, conference, book, a reference mentioning a journal
\* venue or publisher term is journal, else one mentioning arXiv is preprint,
\* else one mentioning "proceedings" or "conference" is conference, else one
\* mentioning "book" or "press" is book, and any other is unknown.
C21_TypeByVocabulary ==
    Parsed =>
        LET journal == \E term \in JournalTerms : Mentions(term)
            preprint == Mentions(<<"a", "r", "x", "i", "v">>)
            conference == Mentions(<<"p", "r", "o", "c", "e", "e", "d", "i", "n", "g", "s">>) \/ Mentions(<<"c", "o", "n", "f", "e", "r", "e", "n", "c", "e">>)
            book == Mentions(<<"b", "o", "o", "k">>) \/ Mentions(<<"p", "r", "e", "s", "s">>)
        IN  /\ TypeOf \in PublicationTypes
            /\ journal => TypeOf = "journal"
            /\ (~journal /\ preprint) => TypeOf = "preprint"
            /\ (~journal /\ ~preprint /\ conference) => TypeOf = "conference"
            /\ (~journal /\ ~preprint /\ ~conference /\ book) => TypeOf = "book"
            /\ (~journal /\ ~preprint /\ ~conference /\ ~book) => TypeOf = "unknown"

---------------------------------------------------------------------------
(* PDFProcessor.count_citations and CitationExtractor.get_citation_        *)
(* statistics on whole texts: citation years, word count and density.      *)
(* A text is a sequence of pieces joined by single spaces: citation        *)
(* markers, a plain word, and the empty piece (so that texts of spaces     *)
(* only occur).                                                            *)
(***************************************************************************)

MaxCountPieces == 3

CountPieces ==
    {[type |-> "apa_author_year",
      raw_text |-> <<"(", "L", "i", ",", " ", "2", "0", "2", "0", ")">>],
     [type |-> "apa_author_year",
      raw_text |-> <<"(", "L", "i", ",", " ", "1", "9", "9", "8", ")">>],
     [type |-> "numbered_citation", raw_text |-> <<"[", "1", "]">>],
     [type |-> "author_year_inline",
      raw_text |-> <<"L", "i", " ", "(", "2", "0", "1", "0", ")">>],
     [type |-> "word", raw_text |-> <<"w", "o", "r", "d">>],
     [type |-> "blank", raw_text |-> <<>>]}

CountTexts == UNION {[1..n -> CountPieces] : n \in 0..MaxCountPieces}

\* The text itself.
citation_text(pieces) == join_words([i \in DOMAIN pieces |-> pieces[i].raw_text])

\* len(text.split())
word_count(text) ==
    Cardinality({i \in DOMAIN text :
                    text[i] \notin Whitespace /\ (i = 1 \/ text[i - 1] \in Whitespace)})

YearDigits == {"0", "1", "2", "8", "9"}
digit_value(c) ==
    CASE c = "0" -> 0 [] c = "1" -> 1 [] c = "2" -> 2 [] c = "8" -> 8 [] c = "9" -> 9

\* \w
is_word_char(c) == c \notin Whitespace \cup {"(", ")", "[", "]", ",", "EOF"}

\* \b(19|20)\d{2}\b matches at position i
year_at(s, i) ==
    /\ <<At(s, i), At(s, i + 1)>> \in {<<"1", "9">>, <<"2", "0">>}
    /\ At(s, i + 2) \in YearDigits /\ At(s, i + 3) \in YearDigits
    /\ ~is_word_char(At(s, i - 1)) /\ ~is_word_char(At(s, i + 4))

\* re.findall(r'\b(19|20)\d{2}\b', s) as ints: findall returns what the one
\* group captured, the century digits.
captured_years(s) ==
    {digit_value(s[i]) * 10 + digit_value(s[i + 1]) : i \in {j \in DOMAIN s : year_at(s, j)}}

\* The four-digit years that occur in s.
four_digit_years(s) ==
    {digit_value(s[i]) * 1000 + digit_value(s[i + 1]) * 100
       + digit_value(s[i + 2]) * 10 + digit_value(s[i + 3]) :
        i \in {j \in DOMAIN s : year_at(s, j)}}

SetMin(S) == CHOOSE x \in S : \A y \in S : x <= y
SetMax(S) == CHOOSE x \in S : \A y \in S : x >= y
RECURSIVE SetSum(_)
SetSum(S) == IF S = {} THEN 0 ELSE LET x == CHOOSE y \in S : TRUE IN x + SetSum(S \ {x})

current_year == 2024

\* The statistics count_citations builds from the collected years.
year_statistics(unique_years) ==
    [unique_years |-> Cardinality(unique_years),
     recent_citations |-> Cardinality({y \in unique_years : y >= current_year - 10}),
     year_range |-> IF unique_years = {} THEN <<"N/A">>
                    ELSE <<SetMin(unique_years), SetMax(unique_years)>>,
     avg_year |-> IF unique_years = {} THEN Frac(0, 1)
                  ELSE Frac(SetSum(unique_years), Cardinality(unique_years))]

\* PDFProcessor.count_citations, lines 256-306
count_citations(pieces) ==
    LET unique_citations == UNION {findall_groups(pieces[i]) : i \in DOMAIN pieces}
        unique_years == UNION {captured_years(g) : g \in unique_citations}
        words == word_count(citation_text(pieces))
        years == year_statistics(unique_years)
    IN  PyDict([total_citations |-> Cardinality(unique_citations),
                unique_years |-> years.unique_years,
                recent_citations |-> years.recent_citations,
                citation_density |-> Frac(Cardinality(unique_citations) * 1000, Max(words, 1)),
                year_range |-> years.year_range,
                avg_year |-> years.avg_year])

\* CitationExtractor.get_citation_statistics, lines 356-377: the division by
\* len(text.split()) is guarded by `if text` only.  No text of CountTexts has
\* a references header, so total_references is 0.
get_citation_statistics(pieces) ==
    LET text == citation_text(pieces)
        found == extract_citations(pieces)
    IN  IF text # <<>> /\ word_count(text) = 0 THEN Raised
        ELSE PyDict([total_citations |-> Len(found),
                     total_references |-> 0,
                     citation_density |-> IF text = <<>> THEN Frac(0, 1)
                                          ELSE Frac(Len(found), word_count(text))])

InitCount ==
    /\ text_markers \in CountTexts
    /\ citations = <<>>
    /\ stats = EmptyDict
    /\ IdleReview /\ IdleProbe /\ IdleAux /\ IdleDoc

\* processor.count_citations(text)
CountCitationsOfText == Record("count_citations", count_citations(text_markers))
\* extractor.get_citation_statistics(text)
CitationStatisticsOfText ==
    Record("get_citation_statistics", get_citation_statistics(text_markers))

NextCount == CountCitationsOfText \/ CitationStatisticsOfText
SpecCount == InitCount /\ [][NextCount]_vars

---------------------------------------------------------------------------
(* Claims on citation years and citation density *)

\* The four-digit years that appear in the citations count_citations matched.
CitedYears ==
    UNION {four_digit_years(g) :
             g \in UNION {findall_groups(text_markers[i]) : i \in DOMAIN text_markers}}

Counted == Done("count_citations") /\ stats["count_citations"].kind = "dict"

\* C22 as claimed: the years count_citations collects are the four-digit
\* years of the matched citations; recent_citations counts the distinct cited
\* years from 2014 on, year_range and avg_year are their minimum-maximum and
\* mean; a text citing (Li, 2020) has recent_citations >= 1.
C22_YearsOfCitations ==
    Counted =>
        LET result == stats["count_citations"].value
        IN  /\ result.unique_years = Cardinality(CitedYears)
            /\ result.recent_citations = Cardinality({y \in CitedYears : y >= 2014})
            /\ CitedYears # {} =>
                  /\ result.year_range = <<SetMin(CitedYears), SetMax(CitedYears)>>
                  /\ FracEq(result.avg_year,
                            Frac(SetSum(CitedYears), Cardinality(CitedYears)))
            /\ 2020 \in CitedYears => result.recent_citations >= 1

\* C23 as claimed: in count_citations and get_citation_statistics alike the
\* citation density is the number of unique citations per 1000 words, and for
\* a text without words (empty or whitespace only) it is 0 and no error is
\* raised.
C23_DensityPerThousandWords ==
    \A op \in {"count_citations", "get_citation_statistics"} :
        Done(op) =>
            LET words == word_count(citation_text(text_markers))
            IN  /\ stats[op].kind = "dict"
                /\ words = 0 => FracEq(stats[op].value.citation_density, Frac(0, 1))
                /\ words > 0 =>
                      FracEq(stats[op].value.citation_density,
                             Frac(stats[op].value.total_citations * 1000, words))

---------------------------------------------------------------------------
(* PDFProcessor.extract_sections with the stored contents.  The text is    *)
(* raw text, a sequence of one-character strings, made of lines; the       *)
(* patterns are matched character by character, case-insensitively.        *)
(***************************************************************************)

MaxSectionLines == 3

\* section_patterns: the words a section's span starts at, the words that end
\* it when they follow a newline and whitespace, and whether the start word
\* is delimited by \b.  The alternatives with a digit, "§" or two words
\* ("1. introduction", "related work") are left out: no text of SectionTexts
\* holds a digit, "§", "related" or "literature".  "keywords?", "methods",
\* "references?" and the like are listed by their shortest form, the optional
\* letter being taken by the following .*? or standing before the \b.
section_patterns ==
    [abstract |-> [starts |-> {<<"a", "b", "s", "t", "r", "a", "c", "t">>},
            ends |-> {<<"k", "e", "y", "w", "o", "r", "d">>, <<"i", "n", "t", "r", "o", "d", "u", "c", "t", "i", "o", "n">>, <<"b", "a", "c", "k", "g", "r", "o", "u", "n", "d">>},
            word |-> TRUE],
     keywords |-> [starts |-> {<<"k", "e", "y", "w", "o", "r", "d">>},
            ends |-> {<<"i", "n", "t", "r", "o", "d", "u", "c", "t", "i", "o", "n">>, <<"b", "a", "c", "k", "g", "r", "o", "u", "n", "d">>},
            word |-> TRUE],
     introduction |-> [starts |-> {<<"i", "n", "t", "r", "o", "d", "u", "c", "t", "i", "o", "n">>},
            ends |-> {<<"m", "e", "t", "h", "o", "d", "o", "l", "o", "g", "y">>, <<"m", "e", "t", "h", "o", "d", "s">>, <<"b", "a", "c", "k", "g", "r", "o", "u", "n", "d">>},
            word |-> FALSE],
     literature_review |-> [starts |-> {<<"b", "a", "c", "k", "g", "r", "o", "u", "n", "d">>},
            ends |-> {<<"m", "e", "t", "h", "o", "d", "o", "l", "o", "g", "y">>, <<"m", "e", "t", "h", "o", "d", "s">>, <<"a", "p", "p", "r", "o", "a", "c", "h">>},
            word |-> FALSE],
     methodology |-> [starts |-> {<<"m", "e", "t", "h", "o", "d", "o", "l", "o", "g", "y">>, <<"m", "e", "t", "h", "o", "d", "s">>, <<"a", "p", "p", "r", "o", "a", "c", "h">>},
            ends |-> {<<"r", "e", "s", "u", "l", "t", "s">>, <<"e", "x", "p", "e", "r", "i", "m", "e", "n", "t">>, <<"e", "v", "a", "l", "u", "a", "t", "i", "o", "n">>, <<"i", "m", "p", "l", "e", "m", "e", "n", "t", "a", "t", "i", "o", "n">>},
            word |-> FALSE],
     results |-> [starts |-> {<<"r", "e", "s", "u", "l", "t", "s">>, <<"e", "x", "p", "e", "r", "i", "m", "e", "n", "t">>, <<"e", "v", "a", "l", "u", "a", "t", "i", "o", "n">>},
            ends |-> {<<"d", "i", "s", "c", "u", "s", "s", "i", "o", "n">>, <<"a", "n", "a", "l", "y", "s", "i", "s">>, <<"c", "o", "n", "c", "l", "u", "s", "i", "o", "n">>},
            word |-> FALSE],
     discussion |-> [starts |-> {<<"d", "i", "s", "c", "u", "s", "s", "i", "o", "n">>, <<"a", "n", "a", "l", "y", "s", "i", "s">>},
            ends |-> {<<"c", "o", "n", "c", "l", "u", "s", "i", "o", "n">>, <<"s", "u", "m", "m", "a", "r", "y">>},
            word |-> FALSE],
     conclusion |-> [starts |-> {<<"c", "o", "n", "c", "l", "u", "s", "i", "o", "n">>, <<"s", "u", "m", "m", "a", "r", "y">>},
            ends |-> {<<"r", "e", "f", "e", "r", "e", "n", "c", "e">>, <<"b", "i", "b", "l", "i", "o", "g", "r", "a", "p", "h", "y">>, <<"a", "c", "k", "n", "o", "w", "l", "e", "d", "g", "m", "e", "n", "t">>, <<"a", "p", "p", "e", "n", "d", "i", "x">>},
            word |-> FALSE],
     references |-> [starts |-> {<<"r", "e", "f", "e", "r", "e", "n", "c", "e">>, <<"b", "i", "b", "l", "i", "o", "g", "r", "a", "p", "h", "y">>},
            ends |-> {<<"a", "p", "p", "e", "n", "d", "i", "x">>},
            word |-> FALSE],
     acknowledgments |-> [starts |-> {<<"a", "c", "k", "n", "o", "w", "l", "e", "d", "g", "m", "e", "n", "t">>, <<"a", "c", "k", "n", "o", "w", "l", "e", "d", "g", "e", "m", "e", "n", "t">>},
            ends |-> {<<"r", "e", "f", "e", "r", "e", "n", "c", "e">>, <<"b", "i", "b", "l", "i", "o", "g", "r", "a", "p", "h", "y">>, <<"a", "p", "p", "e", "n", "d", "i", "x">>},
            word |-> FALSE]]

SectionLines ==
    {<<"A", "b", "s", "t", "r", "a", "c", "t">>,
     <<"t", "e", "x", "t">>,
     <<"I", "n", "t", "r", "o", "d", "u", "c", "t", "i", "o", "n">>,
     <<"M", "e", "t", "h", "o", "d", "s", " ", "x">>,
     <<>>,
     <<"a", "b", "s", "t", "r", "a", "c", "t", "s">>,
     <<" ", "R", "e", "s", "u", "l", "t", "s">>}

\* The lines joined by newlines, with and without a final newline.
SectionTexts ==
    {join_lines(ls) \o tail :
        ls \in UNION {[1..n -> SectionLines] : n \in 0..MaxSectionLines},
        tail \in {<<>>, <<"\n">>}}

\* word occurs at position i of text, whatever the case
word_at(text, i, word) ==
    /\ i + Len(word) - 1 <= Len(text)
    /\ str_lower(SubSeq(text, i, i + Len(word) - 1)) = word

is_letter(c) == c \notin Whitespace \cup {"EOF"}

\* a start alternative of the pattern matches at position i; \bkeywords?\b
\* lets one "s" follow the word
start_at(text, i, pattern) ==
    \E word \in pattern.starts :
        /\ word_at(text, i, word)
        /\ pattern.word =>
              /\ ~is_letter(At(text, i - 1))
              /\ \/ ~is_letter(At(text, i + Len(word)))
                 \/ /\ word = <<"k", "e", "y", "w", "o", "r", "d">>
                    /\ str_lower(<<At(text, i + Len(word))>>) = <<"s">>
                    /\ ~is_letter(At(text, i + Len(word) + 1))

\* (?=\n\s*(?:...|\Z)) holds at position p
end_at(text, p, pattern) ==
    /\ At(text, p) = "\n"
    /\ \E j \in (p + 1)..(Len(text) + 1) :
          /\ \A k \in (p + 1)..(j - 1) : text[k] \in Whitespace
          /\ \/ j = Len(text) + 1
             \/ \E word \in pattern.ends : word_at(text, j, word)

NoSpan == <<"no match">>

\* re.search(pattern, text, re.DOTALL).group(0): from the leftmost start to
\* the first newline after it at which the lookahead holds
section_span(text, pattern) ==
    LET starts == {i \in DOMAIN text : start_at(text, i, pattern)}
    IN  IF starts = {} THEN NoSpan
        ELSE LET start == SetMin(starts)
                 stops == {p \in DOMAIN text : p > start /\ end_at(text, p, pattern)}
             IN  IF stops = {} THEN NoSpan
                 ELSE SubSeq(text, start, SetMin(stops) - 1)

\* Variant: the first line always dropped
section_content_without_first_line(span) ==
    str_strip(join_lines(Tail(split_lines(str_strip(span)))))

\* lines 246-251: the stripped span, without its first line when it has more
\* than one
section_content(span) ==
    LET content == str_strip(span)
        lines == split_lines(content)
    IN  IF Len(lines) > 1 THEN str_strip(join_lines(Tail(lines))) ELSE content

\* lines 243-254: the sections dict
section_contents(text) ==
    LET matched == {name \in DOMAIN section_patterns :
                      /\ section_span(text, section_patterns[name]) # NoSpan
                      /\ section_content(section_span(text, section_patterns[name])) # <<>>}
    IN  [name \in matched |-> section_content(section_span(text, section_patterns[name]))]

InitSections ==
    /\ text_markers \in SectionTexts
    /\ citations = <<>>
    /\ stats = EmptyDict
    /\ IdleReview /\ IdleProbe /\ IdleAux /\ IdleDoc

\* processor.extract_sections(text)
ExtractSections == Record("extract_sections", section_contents(text_markers))

NextSections == ExtractSections
SpecSections == InitSections /\ [][NextSections]_vars

---------------------------------------------------------------------------
(* Claim on the stored section contents *)

SpanOf(name) == section_span(text_markers, section_patterns[name])

\* C24: a section name is in the returned map exactly when its pattern
\* matches the text; its content is the matched span, stripped, without its
\* first line when it has more than one line and whole otherwise; no stored
\* content is empty.
C24_SectionContent ==
    Done("extract_sections") =>
        LET sections == stats["extract_sections"]
        IN  \A name \in DOMAIN section_patterns :
                /\ name \in DOMAIN sections <=> SpanOf(name) # NoSpan
                /\ name \in DOMAIN sections =>
                      LET lines == split_lines(str_strip(SpanOf(name)))
                      IN  /\ sections[name] # <<>>
                          /\ Len(lines) = 1 => sections[name] = lines[1]
                          /\ Len(lines) > 1 =>
                                sections[name] = str_strip(join_lines(Tail(lines)))

\* A text whose abstract spans one line (stored whole) and whose introduction
\* spans several (stored without its heading line).
C24_Witness ==
    /\ Done("extract_sections")
    /\ {"abstract", "introduction"} \subseteq DOMAIN stats["extract_sections"]
    /\ Len(split_lines(SpanOf("abstract"))) = 1
    /\ stats["extract_sections"]["abstract"] = SpanOf("abstract")
    /\ Len(split_lines(SpanOf("introduction"))) > 1
    /\ stats["extract_sections"]["introduction"] # SpanOf("introduction")

---------------------------------------------------------------------------
(* Keyword extraction: TextAnalyzer.extract_keywords and                   *)
(* keyword_extractor.extract_keywords.  A text is a sequence of sentences  *)
(* (what sent_tokenize returns), a sentence a sequence of lower-case words *)
(* (what word_tokenize returns, punctuation aside).                        *)
(***************************************************************************)

MaxSentences == 2
MaxSentenceWords == 2

\* The words of the texts, in alphabetical order.
KeywordWords == <<"ml", "model", "paper", "this">>

\* stopwords.words('english') of nltk, as far as KeywordWords goes
nltk_stop_words == {"this"}
\* line 51-56
academic_stopwords == {"paper"}
\* stop_words='english' of TfidfVectorizer, as far as KeywordWords goes
sklearn_stop_words == {"this"}
\* keyword_extractor.py line 10-14
extractor_stop_words == {"this"}

default_min_length == 4
MaxKeywordChoices == {1, 20}

KeywordSentences ==
    UNION {[1..n -> SeqToSet(KeywordWords)] : n \in 1..MaxSentenceWords}
KeywordTexts ==
    UNION {[1..n -> KeywordSentences] : n \in 0..MaxSentences}

RECURSIVE all_words(_)
all_words(text) == IF text = <<>> THEN <<>> ELSE Head(text) \o all_words(Tail(text))

RECURSIVE keep_words(_, _, _)
keep_words(words, min_length, stop) ==
    IF words = <<>> THEN <<>>
    ELSE (IF Len(Head(words)) >= min_length /\ Head(words) \notin stop
          THEN <<Head(words)>> ELSE <<>>) \o keep_words(Tail(words), min_length, stop)

occurrences(words, w) == Cardinality({i \in DOMAIN words : words[i] = w})
first_index(words, w) == SetMin({i \in DOMAIN words : words[i] = w})

\* Counter(words).most_common(n): by count, descending; equal counts in the
\* order of first occurrence
RECURSIVE most_common_from(_, _, _)
most_common_from(words, left, n) ==
    IF left = {} \/ n = 0 THEN <<>>
    ELSE LET best == CHOOSE w \in left : \A v \in left :
                        \/ occurrences(words, w) > occurrences(words, v)
                        \/ /\ occurrences(words, w) = occurrences(words, v)
                           /\ first_index(words, w) <= first_index(words, v)
         IN  <<[keyword |-> <<best>>, score |-> occurrences(words, best)]>>
                \o most_common_from(words, left \ {best}, n - 1)
most_common(words, n) == most_common_from(words, SeqToSet(words), n)

\* The analyzer of TfidfVectorizer(stop_words='english', ngram_range=(1, 2)):
\* tokens of two or more characters, stop words removed, then the tokens and
\* the pairs of neighbouring tokens
sentence_tokens(sentence) == keep_words(sentence, 2, sklearn_stop_words)
sentence_terms(sentence) ==
    LET tokens == sentence_tokens(sentence)
    IN  {<<tokens[i]>> : i \in DOMAIN tokens}
          \cup {<<tokens[i], tokens[i + 1]>> : i \in 1..(Len(tokens) - 1)}

document_frequency(sentences, term) ==
    Cardinality({d \in DOMAIN sentences : term \in sentence_terms(sentences[d])})

term_count(sentence, term) ==
    LET tokens == sentence_tokens(sentence)
    IN  Cardinality({i \in 1..(Len(tokens) - Len(term) + 1) :
                        SubSeq(tokens, i, i + Len(term) - 1) = term})
RECURSIVE term_frequency(_, _)
term_frequency(sentences, term) ==
    IF sentences = <<>> THEN 0
    ELSE term_count(Head(sentences), term) + term_frequency(Tail(sentences), term)

\* min_df=1, max_df=0.8: the terms of more than 0.8 * len(sentences)
\* sentences are pruned
pruned_vocabulary(sentences) ==
    {term \in UNION {sentence_terms(sentences[d]) : d \in DOMAIN sentences} :
        10 * document_frequency(sentences, term) <= 8 * Len(sentences)}

\* max_features: the vocabularies of at most `limit` terms holding the most
\* frequent ones (which of several equally frequent terms stay is the
\* library's choice)
limited_vocabularies(sentences, limit) ==
    LET all == pruned_vocabulary(sentences)
    IN  IF Cardinality(all) <= limit THEN {all}
        ELSE {kept \in SUBSET all :
                /\ Cardinality(kept) = limit
                /\ \A a \in kept : \A b \in all \ kept :
                      term_frequency(sentences, a) >= term_frequency(sentences, b)}

word_rank(w) == CHOOSE i \in DOMAIN KeywordWords : KeywordWords[i] = w
\* the order of get_feature_names_out(): alphabetical
name_before(a, b) ==
    \/ word_rank(a[1]) < word_rank(b[1])
    \/ /\ a[1] = b[1]
       /\ \/ Len(a) < Len(b)
          \/ Len(a) = 2 /\ Len(b) = 2 /\ word_rank(a[2]) <= word_rank(b[2])
          \/ a = b

\* keyword_scores.sort(key=lambda x: x[1], reverse=True): by score,
\* descending; equal scores in the order of the feature names
RECURSIVE sort_by_score(_, _)
sort_by_score(terms, mean_scores) ==
    IF terms = {} THEN <<>>
    ELSE LET best == CHOOSE t \in terms : \A u \in terms :
                        \/ mean_scores[t] > mean_scores[u]
                        \/ mean_scores[t] = mean_scores[u] /\ name_before(t, u)
         IN  <<[keyword |-> best, score |-> mean_scores[best]]>>
                \o sort_by_score(terms \ {best}, mean_scores)

\* Variant: the TF-IDF ranking returned in ascending order of score
RECURSIVE sort_by_score_ascending(_, _)
sort_by_score_ascending(terms, mean_scores) ==
    IF terms = {} THEN <<>>
    ELSE LET best == CHOOSE t \in terms : \A u \in terms :
                        \/ mean_scores[t] < mean_scores[u]
                        \/ mean_scores[t] = mean_scores[u] /\ name_before(t, u)
         IN  <<[keyword |-> best, score |-> mean_scores[best]]>>
                \o sort_by_score_ascending(terms \ {best}, mean_scores)

\* The levels the mean TF-IDF score of a term is drawn from (the scores are
\* positive reals; only their order enters the result's order).
ScoreLevels == 1..2

\* lines 203-209: the fallback of the except branch
frequency_fallback(text, max_keywords, min_length) ==
    most_common(keep_words(all_words(text), min_length, {}), max_keywords)

\* TextAnalyzer.extract_keywords, lines 153-209: the results it can return
text_analyzer_extract_keywords(text, max_keywords, min_length) ==
    IF text = <<>> THEN {<<>>}
    ELSE LET words == keep_words(all_words(text), min_length,
                                 nltk_stop_words \cup academic_stopwords)
         IN  IF Len(text) < 2 THEN {most_common(words, max_keywords)}
             ELSE IF pruned_vocabulary(text) = {}
                  THEN \* fit_transform raises ValueError
                       {frequency_fallback(text, max_keywords, min_length)}
                  ELSE {Take(sort_by_score(kept, mean_scores), max_keywords) :
                          <<kept, mean_scores>> \in
                             UNION {{kept_} \X [kept_ -> ScoreLevels] :
                                       kept_ \in limited_vocabularies(text, max_keywords * 2)}}

\* keyword_extractor.extract_keywords, lines 4-21: the words only
keyword_extractor_extract_keywords(text, num_keywords) ==
    LET ranked == most_common(keep_words(all_words(text), 0, extractor_stop_words),
                              num_keywords)
    IN  [i \in DOMAIN ranked |-> ranked[i].keyword]

InitKeywords ==
    /\ text_markers \in KeywordTexts
    /\ citations = <<>>
    /\ stats = EmptyDict
    /\ IdleReview /\ IdleProbe /\ IdleAux /\ IdleDoc

\* analyzer.extract_keywords(text, max_keywords, min_length)
TextAnalyzerExtractKeywords ==
    \E max_keywords \in MaxKeywordChoices :
      \E result \in text_analyzer_extract_keywords(text_markers, max_keywords, default_min_length) :
        Record("extract_keywords",
               [max_keywords |-> max_keywords, min_length |-> default_min_length,
                keywords |-> result])

\* keyword_extractor.extract_keywords(text, num_keywords)
KeywordExtractorExtractKeywords ==
    \E num_keywords \in MaxKeywordChoices :
        Record("keyword_extractor",
               [max_keywords |-> num_keywords,
                keywords |-> keyword_extractor_extract_keywords(text_markers, num_keywords)])

NextKeywords == TextAnalyzerExtractKeywords \/ KeywordExtractorExtractKeywords
SpecKeywords == InitKeywords /\ [][NextKeywords]_vars

---------------------------------------------------------------------------
(* Claim on the returned keywords *)

\* the characters of a keyword: its words and the spaces between them
keyword_length(term) ==
    IF Len(term) = 1 THEN Len(term[1]) ELSE Len(term[1]) + 1 + Len(term[2])

\* C25 as claimed: every keyword extract_keywords returns is free of
\* stop-words and has at least min_length characters, at most max_keywords
\* keywords are returned, and their scores do not increase along the list.
C25_KeywordsFiltered ==
    /\ Done("extract_keywords") =>
          LET r == stats["extract_keywords"]
          IN  /\ Len(r.keywords) <= r.max_keywords
              /\ \A i \in DOMAIN r.keywords :
                    /\ \A j \in DOMAIN r.keywords[i].keyword :
                          r.keywords[i].keyword[j]
                             \notin nltk_stop_words \cup academic_stopwords
                    /\ keyword_length(r.keywords[i].keyword) >= r.min_length
                    /\ i > 1 => r.keywords[i - 1].score >= r.keywords[i].score
    /\ Done("keyword_extractor") =>
          LET r == stats["keyword_extractor"]
          IN  /\ Len(r.keywords) <= r.max_keywords
              /\ \A i \in DOMAIN r.keywords :
                    \A j \in DOMAIN r.keywords[i] :
                       r.keywords[i][j] \notin extractor_stop_words

---------------------------------------------------------------------------
(* generate_review with weights outside the sliders' range *)

\* Weights mappings that are empty or whose values sum to 0.
MalformedCriteria ==
    {EmptyDict,
     [novelty |-> 0, methodology |-> 0, clarity |-> 0, significance |-> 0],
     [clarity |-> 0]}

InitMalformed ==
    /\ criteria \in MalformedCriteria
    /\ analysis_results \in ReviewAnalyses
    /\ paper_text \in PaperTexts
    /\ review_type = "Peer Review"
    /\ hash_seed \in 0..(HashSeeds - 1)
    /\ rng \in 0..(RngStates - 1)
    /\ review = NoReview
    /\ calls = 0
    /\ history = NoHistory
    /\ IdleProbe /\ IdleAux /\ IdleCite /\ IdleDoc

NextMalformed == GenerateReview
SpecMalformed == InitMalformed /\ [][NextMalformed]_vars

\* C26 as claimed: when the weights mapping is empty or its values sum to 0,
\* the review is produced, every criterion's score is the one the prior 7
\* gives (the score of the same call with no weights at all), the overall
\* score is 7.0 and the recommendation is Minor Revision.
C26_MalformedWeightsNormalized ==
    (calls > 0 /\ SumOver(DOMAIN criteria, criteria) = 0) =>
        /\ review # NoReview
        /\ SeqToSet(review.detailed_scores) =
              SeqToSet(_calculate_scores(paper_text, EmptyDict, analysis_results))
        /\ FracEq(review.overall_score, Frac(NEUTRAL_PRIOR, 1))
        /\ review.recommendation = "Minor Revision"

---------------------------------------------------------------------------
(* The summary's quality word against the recommendation *)

\* Overall scores in steps of a quarter and of a tenth, and scores just
\* under the thresholds 8.5, 7.5, 7.0, 6.0 and 5.5.
SummaryScores ==
    ProbeScores
    \cup {Frac(k, 10) : k \in 0..(10 * MaxWeight)}
    \cup {Frac(749999, 100000), Frac(599999, 100000)}

InitSummary ==
    /\ probe \in SummaryScores
    /\ probe_rec = ""
    /\ prev_probe = NoProbe
    /\ prev_rec = ""
    /\ IdleReview /\ IdleCite /\ IdleDoc /\ IdleAux

\* lines 111-112 and 130 of generate_review: the recommendation for the
\* overall score and the summary built from both
Summarize ==
    /\ ~Done("summary")
    /\ \E recommendation \in {_get_recommendation(probe)} :
          Record("summary",
                 _generate_summary([subject |-> "the research topic",
                                    contribution |-> "novel insights"],
                                   probe, recommendation))

NextSummary == Summarize
SpecSummary == InitSummary /\ [][NextSummary]_vars

\* C27: the summary's quality word agrees with the recommendation for every
\* overall score: Accept comes with 'strong', Reject with 'limited', and
\* 'strong' never with Major Revision or Reject.
C27_QualityAgreesWithRecommendation ==
    Done("summary") =>
        LET summary == stats["summary"]
        IN  /\ summary.recommendation = _get_recommendation(probe)
            /\ summary.recommendation = "Accept" => summary.quality = "strong"
            /\ summary.recommendation = "Reject" => summary.quality = "limited"
            /\ summary.quality = "strong" =>
                  summary.recommendation \in {"Accept", "Minor Revision"}

\* A score of 7.5 or more below 8.5: 'strong' with Minor Revision.
C27_Witness ==
    /\ Done("summary")
    /\ stats["summary"].quality = "strong"
    /\ stats["summary"].recommendation = "Minor Revision"
    /\ FracLT(probe, Frac(85, 10))

---------------------------------------------------------------------------
(* grammar_checker.split_text.  The text is raw text, a sequence of        *)
(* one-character strings; a chunk is the string ' '.join gives.            *)
(***************************************************************************)

MaxTextChars == 5
MaxChunkWords == 3

TextChars == {"a", "b", " ", "\n"}
GrammarTexts == UNION {[1..n -> TextChars] : n \in 0..MaxTextChars}

\* text.split(): the maximal runs of non-whitespace characters, in order
RECURSIVE str_split(_)
str_split(text) ==
    LET rest == str_lstrip(text)
    IN  IF rest = <<>> THEN <<>>
        ELSE LET stops == {i \in DOMAIN rest : rest[i] \in Whitespace}
                 end == IF stops = {} THEN Len(rest) ELSE SetMin(stops) - 1
             IN  <<SubSeq(rest, 1, end)>> \o str_split(SubSeq(rest, end + 1, Len(rest)))

\* Variant: the last, shorter slice is not yielded
RECURSIVE chunk_words_full_only(_, _)
chunk_words_full_only(words, max_words) ==
    IF Len(words) < max_words THEN <<>>
    ELSE <<SubSeq(words, 1, max_words)>>
            \o chunk_words_full_only(SubSeq(words, max_words + 1, Len(words)), max_words)

\* lines 8-9: words[i:i + max_words] for i in range(0, len(words), max_words)
RECURSIVE chunk_words(_, _)
chunk_words(words, max_words) ==
    IF words = <<>> THEN <<>>
    ELSE <<SubSeq(words, 1, Min(max_words, Len(words)))>>
            \o chunk_words(SubSeq(words, Min(max_words, Len(words)) + 1, Len(words)),
                           max_words)

\* split_text(text, max_words), lines 3-9: the chunks it yields
split_text(text, max_words) ==
    LET slices == chunk_words(str_split(text), max_words)
    IN  [k \in DOMAIN slices |-> join_words(slices[k])]

InitChunks ==
    /\ text_markers \in GrammarTexts
    /\ citations = <<>>
    /\ stats = EmptyDict
    /\ IdleReview /\ IdleProbe /\ IdleAux /\ IdleDoc

\* list(split_text(text, max_words))
SplitText ==
    \E max_words \in 1..MaxChunkWords :
        Record("split_text",
               [max_words |-> max_words, chunks |-> split_text(text_markers, max_words)])

NextChunks == SplitText
SpecChunks == InitChunks /\ [][NextChunks]_vars

---------------------------------------------------------------------------
(* Claim on the chunks *)

RECURSIVE concat_all(_)
concat_all(lists) == IF lists = <<>> THEN <<>> ELSE Head(lists) \o concat_all(Tail(lists))

\* C28: split_text partitions the words of the text into consecutive chunks:
\* every chunk has between 1 and max_words words, only the last may have
\* fewer than max_words, there are ceil(word count / max_words) chunks (none
\* for a text without words), and the words of the chunks, in order, are the
\* words of the text.
C28_ChunksPartitionWords ==
    Done("split_text") =>
        LET chunks == stats["split_text"].chunks
            max_words == stats["split_text"].max_words
            words == str_split(text_markers)
            n == word_count(text_markers)
        IN  /\ \A k \in DOMAIN chunks :
                  /\ word_count(chunks[k]) \in 1..max_words
                  /\ k < Len(chunks) => word_count(chunks[k]) = max_words
            /\ Len(chunks) = (n + max_words - 1) \div max_words
            /\ n = 0 => chunks = <<>>
            /\ concat_all([k \in DOMAIN chunks |-> str_split(chunks[k])]) = words

\* Three words in chunks of two: a full chunk and a shorter last one.
C28_Witness ==
    /\ Done("split_text")
    /\ stats["split_text"].max_words = 2
    /\ word_count(text_markers) = 3
    /\ Len(stats["split_text"].chunks) = 2
    /\ word_count(stats["split_text"].chunks[2]) = 1

---------------------------------------------------------------------------
(* grammar_checker.check_grammar.  The text is given by its words (what    *)
(* text.split() returns); every word is "w".  A request ends in one of     *)
(* four ways: status 200 with a list of matches, another status, an        *)
(* exception of requests.post (timeout, no connection), or status 200 with *)
(* a body response.json() cannot read.                                     *)
(***************************************************************************)

default_max_words == 500
MaxMatches == 2

\* Word counts around one, two and three chunks.
GrammarWordCounts ==
    {0, 1, default_max_words, default_max_words + 1, 2 * default_max_words + 1}
GrammarWords == {[i \in 1..n |-> "w"] : n \in GrammarWordCounts}

\* the chunks of split_text(text), as lists of words
grammar_chunks == chunk_words(text_markers, default_max_words)

\* response.json().get("matches", []) of the request for chunk k
response_matches(k, count) == [j \in 1..count |-> [chunk |-> k, match |-> j]]

\* Variant: the loop is left at the first failed request
leave_loop_after_failure(index, count) == count
\* lines 31-34: the failure is printed and the loop goes on
next_chunk_after_failure(index, count) == index + 1

InitGrammar ==
    /\ text_markers \in GrammarWords
    /\ citations = <<>>
    /\ stats = EmptyDict
    /\ IdleGrammar
    /\ IdleReview /\ IdleProbe /\ IdleDoc /\ IdleParse /\ IdleFeedback

UnchangedButGrammar ==
    /\ UnchangedPipeline
    /\ UNCHANGED <<ref_text, reference>> /\ UNCHANGED feedbackVars

\* check_grammar(text) is called: line 16
CheckGrammar ==
    /\ grammar_pc = "idle"
    /\ grammar_pc' = "loop"
    /\ grammar_matches' = <<>>
    /\ UNCHANGED <<chunk_index, posted, grammar_result>>
    /\ UnchangedButGrammar

\* lines 20-30: the request for the next chunk returns status 200 and its
\* matches are appended
PostReturnsMatches ==
    /\ grammar_pc = "loop" /\ chunk_index < Len(grammar_chunks)
    /\ \E count \in 0..MaxMatches :
          LET matches == response_matches(chunk_index + 1, count)
          IN  /\ posted' = Append(posted, [chunk |-> chunk_index + 1, outcome |-> "200",
                                           matches |-> matches])
              /\ grammar_matches' = grammar_matches \o matches
    /\ chunk_index' = chunk_index + 1
    /\ UNCHANGED <<grammar_pc, grammar_result>>
    /\ UnchangedButGrammar

\* a request that adds nothing to all_matches
PostFails(outcome) ==
    /\ grammar_pc = "loop" /\ chunk_index < Len(grammar_chunks)
    /\ posted' = Append(posted, [chunk |-> chunk_index + 1, outcome |-> outcome,
                                 matches |-> <<>>])
    /\ chunk_index' = next_chunk_after_failure(chunk_index, Len(grammar_chunks))
    /\ UNCHANGED <<grammar_pc, grammar_matches, grammar_result>>
    /\ UnchangedButGrammar

\* lines 31-32: a status other than 200
PostReturnsErrorStatus == PostFails("status 500")
\* lines 33-34: requests.post raises
PostRaises == PostFails("post raised")
\* lines 29, 33-34: response.json() raises
JsonRaises == PostFails("json raised")

\* line 36
ReturnMatches ==
    /\ grammar_pc = "loop" /\ chunk_index = Len(grammar_chunks)
    /\ grammar_result' = [done |-> TRUE, value |-> grammar_matches]
    /\ grammar_pc' = "returned"
    /\ UNCHANGED <<chunk_index, grammar_matches, posted>>
    /\ UnchangedButGrammar

NextGrammar ==
    \/ CheckGrammar
    \/ PostReturnsMatches
    \/ PostReturnsErrorStatus
    \/ PostRaises
    \/ JsonRaises
    \/ ReturnMatches

\* Every request ends (timeout=15), so the loop goes on.
SpecGrammar == InitGrammar /\ [][NextGrammar]_vars /\ WF_vars(NextGrammar)

---------------------------------------------------------------------------
(* Claim on the isolation of failed requests *)

\* the matches of the successful requests, in the order of the requests
successful_matches == concat_all([i \in DOMAIN posted |-> posted[i].matches])

GrammarReturned ==
    grammar_pc = "returned" =>
        /\ [i \in DOMAIN posted |-> posted[i].chunk]
              = [k \in DOMAIN grammar_chunks |-> k]
        /\ grammar_result = [done |-> TRUE, value |-> successful_matches]

\* C29: whatever requests raise or return another status than 200,
\* check_grammar returns; by then it has sent every chunk once, in order,
\* and it returns the matches of the successful requests in chunk order.
C29_FailuresIsolatedPerChunk ==
    /\ [](grammar_pc \in {"idle", "loop", "returned"} /\ GrammarReturned)
    /\ <>(grammar_pc = "returned")

\* Three chunks: the first request raises, the second returns status 500,
\* the third succeeds and its matches are returned.
C29_Witness ==
    /\ grammar_pc = "returned"
    /\ Len(posted) = 3
    /\ posted[1].outcome = "post raised"
    /\ posted[2].outcome = "status 500"
    /\ posted[3].outcome = "200"
    /\ grammar_result.value = response_matches(3, MaxMatches)

---------------------------------------------------------------------------
(* pages/3_Feedback.py: the submission handler, run by each session in its *)
(* own thread.  A row stands for (timestamp, rating, comment).             *)
(***************************************************************************)

MaxSubmissions == 2
Ratings == {1, 5}

\* a row stored before the sessions started
EarlierRow == [session |-> "earlier", n |-> 1, rating |-> 3]
InitialFiles == {NoFile, [exists |-> TRUE, rows |-> <<EarlierRow>>]}

SubmissionsOf(s) == Cardinality({r \in submitted : r.session = s})

InitFeedback ==
    /\ feedback_csv \in InitialFiles
    /\ session_pc = [s \in Sessions |-> "idle"]
    /\ session_data = [s \in Sessions |-> <<>>]
    /\ submitted = {}
    /\ IdleReview /\ IdleProbe /\ IdleCite /\ IdleDoc /\ IdleParse /\ IdleGrammar

UnchangedButFeedback ==
    /\ UnchangedPipeline
    /\ UNCHANGED <<ref_text, reference>> /\ UNCHANGED grammarVars

\* lines 18-24: the button is pressed and feedback_data holds the new row
Submit(s) ==
    /\ session_pc[s] = "idle"
    /\ SubmissionsOf(s) < MaxSubmissions
    /\ \E rating \in Ratings :
          session_data' = [session_data EXCEPT ![s] =
                              <<[session |-> s, n |-> SubmissionsOf(s) + 1,
                                 rating |-> rating]>>]
    /\ session_pc' = [session_pc EXCEPT ![s] = "built"]
    /\ UNCHANGED <<feedback_csv, submitted>>
    /\ UnchangedButFeedback

\* line 28: os.path.exists(file_path)
PathExists(s) ==
    /\ session_pc[s] = "built"
    /\ session_pc' = [session_pc EXCEPT ![s] =
                         IF feedback_csv.exists THEN "exists" ELSE "write"]
    /\ UNCHANGED <<feedback_csv, session_data, submitted>>
    /\ UnchangedButFeedback

\* lines 29-30: existing = pd.read_csv(file_path); feedback_data =
\* pd.concat([existing, feedback_data])
ReadCsv(s) ==
    /\ session_pc[s] = "exists"
    /\ session_data' = [session_data EXCEPT ![s] = feedback_csv.rows \o session_data[s]]
    /\ session_pc' = [session_pc EXCEPT ![s] = "write"]
    /\ UNCHANGED <<feedback_csv, submitted>>
    /\ UnchangedButFeedback

\* lines 32-33: feedback_data.to_csv(file_path) replaces the file's content
ToCsv(s) ==
    /\ session_pc[s] = "write"
    /\ feedback_csv' = [exists |-> TRUE, rows |-> session_data[s]]
    /\ submitted' = submitted \cup {session_data[s][Len(session_data[s])]}
    /\ session_pc' = [session_pc EXCEPT ![s] = "idle"]
    /\ session_data' = [session_data EXCEPT ![s] = <<>>]
    /\ UnchangedButFeedback

NextFeedback ==
    \E s \in Sessions : Submit(s) \/ PathExists(s) \/ ReadCsv(s) \/ ToCsv(s)
SpecFeedback == InitFeedback /\ [][NextFeedback]_vars

---------------------------------------------------------------------------
(* Claim on the stored feedback *)

RowsOf(file, r) == Cardinality({i \in DOMAIN file.rows : file.rows[i] = r})

\* C30 as claimed: no submission is lost, whatever the interleaving of the
\* sessions' reads and writes: the file holds one row for every submission
\* whose handler has finished (every row stored by a submission stays).
C30_NoFeedbackLost ==
    \A r \in submitted : RowsOf(feedback_csv, r) = 1

=============================================================================
